---- MODULE Spec2Model ----
(***************************************************************************)
(* Event-sourced core of co-defi/api-server: the event store with its      *)
(* optimistic version check, the Plan and Pair aggregates, the command     *)
(* handlers of app/commands, and the plans_query / pairs_query             *)
(* projections with their persisted cursors.                               *)
(*                                                                         *)
(* A command handler is a process with its own copy of the aggregate: it   *)
(* reads (read model, event store), tracks events in memory, and saves     *)
(* in a later step, so other handlers and the projections interleave       *)
(* between its read and its save.                                          *)
(*                                                                         *)
(* The server starts on an empty database or on one an earlier run left    *)
(* with a pair in status assurance or deposit (Init), so that the later    *)
(* commands of a pair's life run within the bound on appended events.      *)
(*                                                                         *)
(* SpecProjection takes a run of a projection apart into its fetch, its    *)
(* callbacks and their statements, with failed statements, restarts and    *)
(* resets. SpecAuth is the tokens cache of common/authentication.go with   *)
(* Init, Verify and ExtractTokenFromHttp under a clock.                    *)
(* SpecTerminal starts on a withdrawn pair whose read model is rebuilt,    *)
(* SpecCounterparts on one plan whose two assets' holders ask for a pair.  *)
(***************************************************************************)
EXTENDS Integers, Sequences, FiniteSets, TLC

\* ------------------------------------------------------------------ bounds
\* commands are accepted until a run of the server has appended this many events
MaxEvents == 7
\* command handlers in flight at the same time
MaxHandlers == 2
\* uuids handed out to pairs / plans
MaxPairs == 1
MaxPlans == 1
\* handlers run while no projection is further behind than this
MaxLag == 1

\* Verify calls in flight at once
MaxVerifiers == 1

\* tokens Init issues
MaxTokens == 2

\* the clock runs from 0 to MaxTime
MaxTime == 3

\* ------------------------------------------------------------------ values
ThorRune == "THOR.RUNE"
BtcBtc == "BTC.BTC"
EthEth == "ETH.ETH"

PairStatusWaiting == "waiting"
PairStatusWalletConformation == "wallet_conformation"
PairStatusAssurance == "assurance"
PairStatusDeposit == "deposit"
PairStatusPreSignWithdrawal == "pre_sign_withdrawal"
PairStatusLP == "lp"
PairStatusWithdrawn == "withdrawn"
PairStatusInvalid == "invalid"

\* the order of the states (spec section 3); the zero status "" is before all
StatusOrder ==
    << PairStatusWaiting, PairStatusWalletConformation, PairStatusAssurance,
       PairStatusDeposit, PairStatusPreSignWithdrawal, PairStatusLP,
       PairStatusWithdrawn >>

\* SQL NULL in a read-model column: equal to no value a query compares with
NULL == "NULL"

\* Go maps: a function whose domain is the set of keys present
EmptyMap == [k \in {} |-> ""]
MapPut(m, k, v) == [x \in (DOMAIN m) \cup {k} |-> IF x = k THEN v ELSE m[x]]
\* m[k] of Go: the zero value when the key is absent
MapGet(m, k, zero) == IF k \in DOMAIN m THEN m[k] ELSE zero
MapLen(m) == Cardinality(DOMAIN m)

\* a Go pointer: <<>> is nil, <<v>> points to v
Nil == << >>
Ptr(v) == << v >>

NoID == << "", 0 >>
PlanID(n) == << "plan", n >>
PairID(n) == << "pair", n >>

\* ------------------------------------------------------------------ state
VARIABLES
    events,        \* the events table, in seq (global sequence) order
    started,       \* how many events the table held when the server started
    uuids,         \* [plan, pair]: how many uuids uuid.New() has handed out
    handlers,      \* the command handlers in flight, one record per slot
    projections,   \* the projections table: name -> last_handled_event_seq
    plans_query,   \* the plans_query table, in rowid order
    pairs_query,   \* the pairs_query table, in rowid order
    runners,       \* name -> the projection's goroutine: its place and its cached events
    applied,       \* name -> the seqs whose callback took effect since the read table was created
    failsafe,      \* whether the projections are wrapped in FailSafeProjection
    faults,        \* the failed statements, restarts and resets so far, in order
    cache,         \* the tokens cache: id -> [bytes, at], at the time of the Set
    now,           \* time.Now().Unix(), in units of half of tokensTTL
    issued,        \* id -> the token Init returned for it
    verified,      \* the ids a Verify with a valid signature has returned nil for
    verifiers,     \* the Verify calls in flight, one record per slot
    response       \* what ExtractTokenFromHttp returned to the request in flight

\* the state of the projection runtime, which the command handlers leave alone
projvars == << runners, applied, failsafe, faults >>

authvars == << cache, now, issued, verified, verifiers, response >>

vars == << events, started, uuids, handlers, projections, plans_query, pairs_query,
           runners, applied, failsafe, faults  ,
          cache, now, issued, verified, verifiers, response >>

Procs == 1 .. MaxHandlers

\* the projections NewApplication registers, by the name of their read table
ProjectionNames == { "plans_query", "pairs_query" }

\* a projection goroutine between two runs: nothing fetched
IdleRunner == [ pc |-> "fetch", events |-> << >>, pos |-> -1 ]

\* the state of the command side and of its read tables, which the
\* authentication leaves alone
servervars == << events, started, uuids, handlers, projections, plans_query, pairs_query >>

\* Token{}: the zero value of the struct
ZeroToken == [ Id |-> 0, Chain |-> "", PublicKey |-> "", Address |-> "", IssuedAt |-> 0, ExpiresAt |-> 0, Challenge |-> 0, Verified |-> FALSE ]

Verifiers == 1 .. MaxVerifiers

\* no Verify call in the slot
IdleVerifier == [ pc |-> "idle", token |-> ZeroToken, valid |-> FALSE ]

\* no request is between ExtractTokenFromHttp and its reply
NoResponse == [ header |-> << >>, err |-> "none", token |-> ZeroToken ]

\* NewAuthenticationDB: an empty cache
AuthStart ==
    /\ cache = [ k \in {} |-> [ bytes |-> ZeroToken, at |-> 0 ] ]
    /\ now = 0
    /\ issued = [ k \in {} |-> ZeroToken ]
    /\ verified = {}
    /\ verifiers = [ v \in Verifiers |-> IdleVerifier ]
    /\ response = NoResponse

\* ------------------------------------------------------------------ event store
\* core.Event as the sql event store keeps it
Event(id, type, version, reason, data) ==
    [ AggregateID |-> id, AggregateType |-> type, Version |-> version,
      GlobalVersion |-> 0, Reason |-> reason, Data |-> data ]

\* the events of one aggregate, in version order as the store returns them
StreamOf(log, id, type) ==
    SelectSeq(log, LAMBDA e : e.AggregateID = id /\ e.AggregateType = type)

\* Save: `Select version from events where id=? and aggregate_type=?
\*        order by version desc limit 1`, 0 when there is no row
CurrentVersion(log, id, type) ==
    LET vs == { log[i].Version : i \in { j \in 1 .. Len(log) :
                    log[j].AggregateID = id /\ log[j].AggregateType = type } }
    IN  IF vs = {} THEN 0 ELSE CHOOSE v \in vs : \A w \in vs : w <= v

VersionCheckSkipped(current, pending) == TRUE

VersionCheckLoose(current, pending) == current + 1 >= pending[1].Version

\* Save: `if core.Version(currentVersion)+1 != events[0].Version`
\*       then ErrConcurrency
VersionMatches(current, pending) == current + 1 = pending[1].Version

RECURSIVE Stamp(_, _)
\* the insert loop of Save: each event gets the next seq as its global version
Stamp(pending, from) ==
    IF pending = << >> THEN << >>
    ELSE << [ pending[1] EXCEPT !.GlobalVersion = from + 1 ] >>
         \o Stamp(Tail(pending), from + 1)

InsertFirstOnly(log, pending) ==
    IF pending = << >> THEN log ELSE log \o Stamp(<< pending[1] >>, Len(log))

\* Save: the inserts of one batch commit in one transaction
InsertEvents(log, pending) == log \o Stamp(pending, Len(log))

\* store.All(start, count): up to count events with seq >= start, ascending
All(log, start, count) ==
    SubSeq(log, start, IF Len(log) < start + count - 1 THEN Len(log)
                        ELSE start + count - 1)

\* ------------------------------------------------------------------ Plan aggregate
ZeroPlan ==
    [ ID |-> NoID, Version |-> 0, Events |-> << >>,
      Assets |-> << >>, Security |-> "", Strategy |-> "", Quantum |-> 0,
      LossProtection |-> 0, InvestingPeriod |-> 0 ]

\* Plan.Transition: PlanCreated sets the fields verbatim
PlanTransition(p, e) ==
    IF e.Reason = "PlanCreated"
    THEN [ p EXCEPT !.Assets = e.Data.Assets, !.Security = e.Data.Security,
                    !.Strategy = e.Data.Strategy, !.Quantum = e.Data.Quantum,
                    !.LossProtection = e.Data.LossProtection,
                    !.InvestingPeriod = e.Data.InvestingPeriod ]
    ELSE p

\* ------------------------------------------------------------------ Pair aggregate
ZeroPair ==
    [ ID |-> NoID, Version |-> 0, Events |-> << >>,
      Status |-> "", Assets |-> << >>, ParticipantsAddress |-> EmptyMap,
      ShareValue |-> 0, InvestingPeriod |-> 0, WalletSecurity |-> "",
      ProfitSharingStrategy |-> "", LossProtection |-> 0,
      Wallet |-> Nil, Assurances |-> EmptyMap, Deposits |-> EmptyMap,
      WithdrawTx |-> Nil, LP |-> EmptyMap, Deadline |-> 0, WithdrawnTx |-> Nil ]

applyPairCreated(p, e) ==
    [ p EXCEPT !.Assets = << e.ParticipantAsset, e.SecondaryAsset >>,
               !.ParticipantsAddress =
                   MapPut(EmptyMap, e.ParticipantAsset, e.ParticipantAddress),
               !.ShareValue = e.ShareValue,
               !.InvestingPeriod = e.InvestingPeriod,
               !.WalletSecurity = e.WalletSecurity,
               !.ProfitSharingStrategy = e.ProfitSharingStrategy,
               !.LossProtection = e.LossProtection ]

applyPairStatusChanged(p, e) == [ p EXCEPT !.Status = e.Status ]

applyPairMatchedUnderFirst(p, e) ==
    [ p EXCEPT !.Wallet = Ptr([ PublicKeys |-> EmptyMap, Addresses |-> EmptyMap,
                                EncryptionKey |-> e.WalletEncryptionKey,
                                HexChainCode |-> e.WalletHexChainCode ]),
               !.ParticipantsAddress =
                   MapPut(p.ParticipantsAddress, p.Assets[1], e.ParticipantAddress) ]

applyPairMatchedKeepsAddresses(p, e) ==
    [ p EXCEPT !.Wallet = Ptr([ PublicKeys |-> EmptyMap, Addresses |-> EmptyMap,
                                EncryptionKey |-> e.WalletEncryptionKey,
                                HexChainCode |-> e.WalletHexChainCode ]) ]

\* a new wallet replaces p.Wallet; the address goes under p.Assets[1]
\* (Go indexes from 0: the secondary asset)
applyPairMatched(p, e) ==
    [ p EXCEPT !.Wallet = Ptr([ PublicKeys |-> EmptyMap, Addresses |-> EmptyMap,
                                EncryptionKey |-> e.WalletEncryptionKey,
                                HexChainCode |-> e.WalletHexChainCode ]),
               !.ParticipantsAddress =
                   MapPut(p.ParticipantsAddress, p.Assets[2], e.ParticipantAddress) ]

applyWalletAddressConfirmed(p, e) ==
    [ p EXCEPT !.Wallet =
        Ptr([ p.Wallet[1] EXCEPT
                !.Addresses = e.WalletAddresses,
                !.PublicKeys = MapPut(p.Wallet[1].PublicKeys,
                                      e.ParticipantAsset, e.PublicKey) ]) ]

applyAssetAssuranceSigned(p, e) ==
    [ p EXCEPT !.Assurances =
        MapPut(p.Assurances, e.Asset,
               Append(MapGet(p.Assurances, e.Asset, << >>), e.Tx)) ]

applyAssetDeposited(p, e) ==
    [ p EXCEPT !.Deposits = MapPut(p.Deposits, e.Asset, e.TxHash) ]

applyWithdrawTxSigned(p, e) == [ p EXCEPT !.WithdrawTx = Ptr(e.Tx) ]

applyLPDone(p, e) ==
    [ p EXCEPT !.LP = MapPut(p.LP, e.Asset, e.TxHash), !.Deadline = e.Deadline ]

applyWithdrawn(p, e) == [ p EXCEPT !.WithdrawnTx = Ptr(e.TxHash) ]

\* Pair.Transition: dispatch on the event's data type
Transition(p, e) ==
    CASE e.Reason = "PairCreated" -> applyPairCreated(p, e.Data)
      [] e.Reason = "PairStatusChanged" -> applyPairStatusChanged(p, e.Data)
      [] e.Reason = "PairMatched" -> applyPairMatched(p, e.Data)
      [] e.Reason = "WalletAddressConfirmed" -> applyWalletAddressConfirmed(p, e.Data)
      [] e.Reason = "AssetAssuranceSigned" -> applyAssetAssuranceSigned(p, e.Data)
      [] e.Reason = "AssetDeposited" -> applyAssetDeposited(p, e.Data)
      [] e.Reason = "WithdrawTxSigned" -> applyWithdrawTxSigned(p, e.Data)
      [] e.Reason = "LPDone" -> applyLPDone(p, e.Data)
      [] e.Reason = "Withdrawn" -> applyWithdrawn(p, e.Data)
      [] OTHER -> p

HasAsset(p, asset) == \E i \in 1 .. Len(p.Assets) : p.Assets[i] = asset
HasAssurancesForAsset(p, asset) == asset \in DOMAIN p.Assurances
HasDepositNever(p, asset) == FALSE
HasDepositForAsset(p, asset) == asset \in DOMAIN p.Deposits
HasLPForAsset(p, asset) == asset \in DOMAIN p.LP

AreAddressesEqualAlways(w, addresses) == TRUE

\* MultisigWallet.AreAddressesEqual: every submitted entry equals the
\* recorded one; an absent recorded entry reads as the empty address
AreAddressesEqual(w, addresses) ==
    \A asset \in DOMAIN addresses :
        MapGet(w.Addresses, asset, "") = addresses[asset]

\* ------------------------------------------------------------------ aggregate engine
\* AggregateRoot.TrackChange: the event takes the next version, is appended
\* to the pending events and applied at once
TrackChange(p, type, reason, data) ==
    LET version == IF p.Events = << >> THEN p.Version + 1
                   ELSE p.Events[Len(p.Events)].Version + 1
        e == Event(p.ID, type, version, reason, data)
        q == IF type = "Plan" THEN PlanTransition(p, e) ELSE Transition(p, e)
    IN  [ q EXCEPT !.Events = Append(p.Events, e) ]

\* the zero value of the event struct registered for reason (Pair.Register)
ZeroEvent(reason) ==
    CASE reason = "PairCreated" ->
           [ ParticipantAsset |-> "", ParticipantAddress |-> "", SecondaryAsset |-> "",
             ShareValue |-> 0, InvestingPeriod |-> 0, WalletSecurity |-> "",
             ProfitSharingStrategy |-> "", LossProtection |-> 0 ]
      [] reason = "PairStatusChanged" -> [ Status |-> "" ]
      [] reason = "PairMatched" ->
           [ ParticipantAddress |-> "", WalletEncryptionKey |-> "",
             WalletHexChainCode |-> "" ]
      [] reason = "WalletAddressConfirmed" ->
           [ ParticipantAsset |-> "", PublicKey |-> "", WalletAddresses |-> EmptyMap ]
      [] reason = "AssetAssuranceSigned" ->
           [ Asset |-> "", Tx |-> [ Nonce |-> 0, Tx |-> "", Signature |-> "" ] ]
      [] reason = "AssetDeposited" -> [ Asset |-> "", TxHash |-> "" ]
      [] reason = "WithdrawTxSigned" ->
           [ Tx |-> [ Nonce |-> 0, Tx |-> "", Signature |-> "" ] ]
      [] reason = "LPDone" -> [ Asset |-> "", TxHash |-> "", Deadline |-> 0 ]
      [] reason = "Withdrawn" -> [ TxHash |-> "" ]

\* json.Marshal of the event data at Save: every field is tagged omitempty,
\* so a field holding its zero value is left out (a struct field left out
\* here reads back as the struct of left-out fields Go writes for it)
Marshal(zero, data) ==
    [ f \in { g \in DOMAIN data : data[g] # zero[g] } |-> data[f] ]

\* json.Unmarshal into the registered struct at Get: a field the text does
\* not hold keeps its zero value
Unmarshal(zero, text) ==
    [ f \in DOMAIN zero |-> IF f \in DOMAIN text THEN text[f] ELSE zero[f] ]

\* the event as Get hands it to Transition: its data written at Save and
\* read back
Deserialized(e) ==
    [ e EXCEPT !.Data = Unmarshal(ZeroEvent(e.Reason), Marshal(ZeroEvent(e.Reason), @)) ]

RECURSIVE Replay(_, _)
\* the loop of EventRepository.Get: apply each stored event, in version order
Replay(p, stream) ==
    IF stream = << >> THEN p
    ELSE Replay([ Transition(p, Deserialized(stream[1]))
                      EXCEPT !.Version = stream[1].Version ],
                Tail(stream))

\* EventRepository.GetWithContext(id, &Pair{}): the pair rebuilt from its
\* events ([found |-> FALSE] is ErrAggregateNotFound)
GetPair(log, id) ==
    LET stream == StreamOf(log, id, "Pair")
    IN  IF stream = << >> THEN [ found |-> FALSE, p |-> ZeroPair ]
        ELSE [ found |-> TRUE, p |-> Replay([ ZeroPair EXCEPT !.ID = id ], stream) ]

\* ------------------------------------------------------------------ read models
\* PlansQuery.insertPlan: one row per PlanCreated; the assets column is the
\* asset names joined by ",", kept here as the list of the joined names
insertPlan(rows, id, e) ==
    Append(rows, [ Id |-> id, Assets |-> e.Assets, Security |-> e.Security,
                   Strategy |-> e.Strategy, Quantum |-> e.Quantum,
                   LossProtection |-> e.LossProtection,
                   InvestingPeriod |-> e.InvestingPeriod ])

\* PlansQuery.Get: `select * from plans_query where id = ?`
\* ([found |-> FALSE] is ErrPlanNotFound)
PlansGet(rows, id) ==
    LET hit == SelectSeq(rows, LAMBDA r : r.Id = id)
    IN  IF hit = << >> THEN [ found |-> FALSE, plan |-> ZeroPlan ]
        ELSE [ found |-> TRUE, plan |-> hit[1] ]

\* insertPair: the status column is not in the insert list and stays NULL
insertPair(rows, id, e) ==
    Append(rows,
        [ Id |-> id, Status |-> NULL,
          Assets |-> << e.ParticipantAsset, e.SecondaryAsset >>,
          ParticipantAddresses |-> << e.ParticipantAddress >>,
          ShareValue |-> e.ShareValue, InvestingPeriod |-> e.InvestingPeriod,
          WalletSecurity |-> e.WalletSecurity,
          ProfitSharingStrategy |-> e.ProfitSharingStrategy,
          LossProtection |-> e.LossProtection,
          Wallet |-> EmptyMap, Assurances |-> EmptyMap, Deposits |-> EmptyMap,
          WithdrawTx |-> Nil, LP |-> EmptyMap, Deadline |-> NULL,
          WithdrawnTx |-> NULL ])

\* the updates below are `update pairs_query set ... where id = ?`: the rows
\* with that id change, the others stay
updateStatus(rows, id, status) ==
    [ i \in 1 .. Len(rows) |->
        IF rows[i].Id # id THEN rows[i]
        ELSE [ rows[i] EXCEPT !.Status = status ] ]

\* setPairMatched: participant_addresses = format('%s,%s', old, new), and the
\* two keys of the wallet document are set
setPairMatched(rows, id, e) ==
    [ i \in 1 .. Len(rows) |->
        IF rows[i].Id # id THEN rows[i]
        ELSE [ rows[i] EXCEPT
                 !.ParticipantAddresses = Append(@, e.ParticipantAddress),
                 !.Wallet = MapPut(MapPut(@, "encryption_key", e.WalletEncryptionKey),
                                   "hex_chain_code", e.WalletHexChainCode) ] ]

updateMultisigWallet(rows, id, e) ==
    [ i \in 1 .. Len(rows) |->
        IF rows[i].Id # id THEN rows[i]
        ELSE [ rows[i] EXCEPT !.Wallet =
                 MapPut(MapPut(@, "public_keys",
                               MapPut(MapGet(@, "public_keys", EmptyMap),
                                      e.ParticipantAsset, e.PublicKey)),
                        "addresses", e.WalletAddresses) ] ]

updateAssurances(rows, id, e) ==
    [ i \in 1 .. Len(rows) |->
        IF rows[i].Id # id THEN rows[i]
        ELSE [ rows[i] EXCEPT !.Assurances =
                 MapPut(@, e.Asset, Append(MapGet(@, e.Asset, << >>), e.Tx)) ] ]

updateDeposits(rows, id, e) ==
    [ i \in 1 .. Len(rows) |->
        IF rows[i].Id # id THEN rows[i]
        ELSE [ rows[i] EXCEPT !.Deposits = MapPut(@, e.Asset, e.TxHash) ] ]

updateWithdrawTx(rows, id, e) ==
    [ i \in 1 .. Len(rows) |->
        IF rows[i].Id # id THEN rows[i]
        ELSE [ rows[i] EXCEPT !.WithdrawTx = Ptr(e.Tx) ] ]

updateLP(rows, id, e) ==
    [ i \in 1 .. Len(rows) |->
        IF rows[i].Id # id THEN rows[i]
        ELSE [ rows[i] EXCEPT !.LP = MapPut(@, e.Asset, e.TxHash),
                              !.Deadline = e.Deadline ] ]

updateWithdrawnTx(rows, id, txHash) ==
    [ i \in 1 .. Len(rows) |->
        IF rows[i].Id # id THEN rows[i]
        ELSE [ rows[i] EXCEPT !.WithdrawnTx = txHash ] ]

\* the switch of PairsQuery.Callback: the table after the event is applied
PairsApply(rows, e) ==
    CASE e.Reason = "PairCreated" -> insertPair(rows, e.AggregateID, e.Data)
      [] e.Reason = "PairStatusChanged" -> updateStatus(rows, e.AggregateID, e.Data.Status)
      [] e.Reason = "PairMatched" -> setPairMatched(rows, e.AggregateID, e.Data)
      [] e.Reason = "WalletAddressConfirmed" -> updateMultisigWallet(rows, e.AggregateID, e.Data)
      [] e.Reason = "AssetAssuranceSigned" -> updateAssurances(rows, e.AggregateID, e.Data)
      [] e.Reason = "AssetDeposited" -> updateDeposits(rows, e.AggregateID, e.Data)
      [] e.Reason = "WithdrawTxSigned" -> updateWithdrawTx(rows, e.AggregateID, e.Data)
      [] e.Reason = "LPDone" -> updateLP(rows, e.AggregateID, e.Data)
      [] e.Reason = "Withdrawn" -> updateWithdrawnTx(rows, e.AggregateID, e.Data.TxHash)
      [] OTHER -> rows

RECURSIVE Join(_)
\* strings.Join(names, ","): the text the assets column holds, and the
\* participant_addresses column after format('%s,%s', old, new)
Join(names) ==
    IF names = << >> THEN ""
    ELSE IF Len(names) = 1 THEN names[1]
    ELSE names[1] \o "," \o Join(Tail(names))

\* `text like '%a%'`: a is a part of text (the names of the model are of
\* one case of letters and hold no % and no _)
Like(text, a) ==
    \E i \in 1 .. Len(text) - Len(a) + 1 : SubSeq(text, i, i + Len(a) - 1) = a

AssetsLike(r, a) == Like(Join(r.Assets), a)
AddressesLike(r, a) == Like(Join(r.ParticipantAddresses), a)

\* PairsQuery.Find: every filter is optional (a nil pointer or an empty
\* list: no condition); rows come back in rowid order
Find(rows, status, assets, assetsOrder, participantAddresses, shareValue, investingPeriod, walletSecurity, profitSharingStrategy, lossProtection) ==
    SelectSeq(rows, LAMBDA r :
        /\ status # Nil => r.Status = status[1]
        /\ Len(assets) > 1 /\ assetsOrder => Join(r.Assets) = Join(assets)
        /\ Len(assets) > 1 /\ ~assetsOrder =>
               AssetsLike(r, assets[1]) /\ AssetsLike(r, assets[2])
        /\ Len(assets) = 1 => AssetsLike(r, assets[1])
        /\ Len(participantAddresses) > 1 =>
               /\ AddressesLike(r, participantAddresses[1])
               /\ AddressesLike(r, participantAddresses[2])
        /\ Len(participantAddresses) = 1 => AddressesLike(r, participantAddresses[1])
        /\ shareValue # Nil => r.ShareValue = shareValue[1]
        /\ investingPeriod # Nil => r.InvestingPeriod = investingPeriod[1]
        /\ walletSecurity # Nil => r.WalletSecurity = walletSecurity[1]
        /\ profitSharingStrategy # Nil =>
               r.ProfitSharingStrategy = profitSharingStrategy[1]
        /\ lossProtection # Nil => r.LossProtection = lossProtection[1])

\* ------------------------------------------------------------------ command inputs
projectionCount == 100
week == 7

IssuedPlans == { PlanID(n) : n \in 1 .. uuids.plan }
IssuedPairs == { PairID(n) : n \in 1 .. uuids.pair }

\* PlanID(0), PairID(0): well-formed uuids no aggregate has
PlanIdInputs == IssuedPlans \cup { PlanID(0) }
PairIdInputs == IssuedPairs \cup { PairID(0) }
AssetInputs == { ThorRune, BtcBtc, EthEth }
AddressInputs == { "addr1", "addr2" }
PublicKeyInputs == { "pk1", "pk2" }
WalletAddressInputs == { "", "w1" }
TxHashInputs == { "tx1" }
SignedTx(nonce) == [ Nonce |-> nonce, Tx |-> "tx", Signature |-> "sig" ]
AssuranceInputs ==
    { << SignedTx(0), SignedTx(2) >>,
      << SignedTx(0), SignedTx(2), SignedTx(4) >>,
      << SignedTx(2), SignedTx(4) >> }

CreateNewPlanInputs ==
    { [ Assets |-> a, Security |-> "2-2", Strategy |-> "equal_share",
        Quantum |-> q, LossProtection |-> 10, InvestingPeriod |-> 4 ] :
      a \in { << ThorRune, BtcBtc >>, << BtcBtc, BtcBtc >>, << ThorRune >> },
      q \in { 100 } }

\* the validate tags of CreateNewPlan (LossProtection in hundredths)
ValidCreateNewPlan(cmd) ==
    /\ Len(cmd.Assets) = 2
    /\ cmd.Security = "2-2"
    /\ cmd.Strategy = "equal_share"
    /\ cmd.Quantum >= 1
    /\ cmd.LossProtection >= 10 /\ cmd.LossProtection <= 50
    /\ cmd.InvestingPeriod >= 1

ValidCreateOrMatchPair(cmd) ==
    cmd.ParticipantAsset # "" /\ cmd.ParticipantAddress # ""

ValidConfirmPairWallet(cmd) ==
    /\ cmd.ParticipantAsset # ""
    /\ cmd.ParticipantPublicKey # ""
    /\ MapLen(cmd.WalletAddresses) = 2

ValidSetPairAssurances(cmd) ==
    cmd.ParticipantAsset # "" /\ Len(cmd.Assurances) > 0

containsAsset(assets, asset) == \E i \in 1 .. Len(assets) : assets[i] = asset

getSecondaryAssetFirst(primaryAsset, assets) == assets[1]

\* the first of assets that is not primaryAsset, "" when there is none
getSecondaryAsset(primaryAsset, assets) ==
    LET others == { i \in 1 .. Len(assets) : assets[i] # primaryAsset }
    IN  IF others = {} THEN ""
        ELSE assets[CHOOSE i \in others : \A j \in others : i <= j]

hasAssuranceWithNonce(assurances, nonce) ==
    \E i \in 1 .. Len(assurances) : assurances[i].Nonce = nonce

validateAssurancesNoRune(asset, assurances) ==
    IF ~hasAssuranceWithNonce(assurances, 0) THEN "missing assurance with nonce 0"
    ELSE IF ~hasAssuranceWithNonce(assurances, 2) THEN "missing assurance with nonce 2"
    ELSE ""

\* "" when the list is accepted, else the meta of ErrInvalidAssurances
validateAssurances(asset, assurances) ==
    IF ~hasAssuranceWithNonce(assurances, 0) THEN "missing assurance with nonce 0"
    ELSE IF ~hasAssuranceWithNonce(assurances, 2) THEN "missing assurance with nonce 2"
    ELSE IF asset = ThorRune /\ ~hasAssuranceWithNonce(assurances, 4)
         THEN "missing assurance with nonce 4"
    ELSE ""

RECURSIVE TrackAssurances(_, _, _)
\* the loop of setPairAssurancesHandler.Handle: one event per assurance
TrackAssurances(p, asset, assurances) ==
    IF assurances = << >> THEN p
    ELSE TrackAssurances(
            TrackChange(p, "Pair", "AssetAssuranceSigned",
                        [ Asset |-> asset, Tx |-> assurances[1] ]),
            asset, Tail(assurances))

\* ------------------------------------------------------------------ handler slots
\* asset, plan and addr are the command and the plan the match branch of
\* createOrMatchPairHandler.Handle still holds when it loads pairs[0]
IdleSlot == [ pc |-> "idle", op |-> "", id |-> NoID, asset |-> "", plan |-> NoID, addr |-> "", p |-> ZeroPair ]

\* a new command takes the lowest free slot
FreeSlot(h) ==
    /\ handlers[h].pc = "idle"
    /\ \A g \in Procs : g < h => handlers[g].pc # "idle"

Lag(name) == Len(events) - projections[name]

\* the projection replays the log the server started on (its cursor was
\* reset): the server takes commands all through the replay
Rebuilding(name) == projections[name] + MaxLag < started

\* the projections keep up: a handler takes a step while no projection is
\* more than MaxLag events behind, a projection that replays the start log
\* apart
KeepingUp ==
    /\ Lag("plans_query") <= MaxLag \/ Rebuilding("plans_query")
    /\ Lag("pairs_query") <= MaxLag \/ Rebuilding("pairs_query")

Accepting == Len(events) < started + MaxEvents /\ KeepingUp

\* the handler returns err to its caller without having tracked or saved
\* anything: no table changes
Fails(op, id, err) == UNCHANGED vars

\* the handler has tracked its events on p and goes on to repo.Save
Tracks(h, op, p) ==
    /\ handlers' = [ handlers EXCEPT ![h] = [ IdleSlot EXCEPT !.pc = "save",
                                                             !.op = op, !.p = p ] ]
    /\ UNCHANGED << events, started, projections, plans_query, pairs_query >>

\* the pair a handler loads with repo.GetWithContext
Loaded(id) == GetPair(events, id).p

\* a handler up to its repo.Save: r is what Handle has made of the
\* command, the error it returns or the pair with its tracked events
Returned(h, op, id, r) ==
    IF r.err # "" THEN Fails(op, id, r.err)
    ELSE Tracks(h, op, r.p) /\ UNCHANGED uuids

\* ------------------------------------------------------------------ handlers
Ok(p) == [ err |-> "", p |-> p ]
Err(code) == [ err |-> code, p |-> ZeroPair ]

StatusChangedUntracked(p, status) == [ p EXCEPT !.Status = status ]

\* TrackChange(pair, &PairStatusChanged{status})
StatusChanged(p, status) ==
    TrackChange(p, "Pair", "PairStatusChanged", [ Status |-> status ])

\* createNewPlanHandler.Handle: the new plan with PlanCreated tracked
TrackPlanCreated(id, cmd) ==
    TrackChange([ ZeroPlan EXCEPT !.ID = id ], "Plan", "PlanCreated", cmd)

\* createOrMatchPairHandler.Handle, no candidate: the new pair with
\* PairCreated and PairStatusChanged(waiting) tracked
TrackPairCreated(id, cmd, plan) ==
    StatusChanged(
        TrackChange([ ZeroPair EXCEPT !.ID = id ], "Pair", "PairCreated",
            [ ParticipantAsset |-> cmd.ParticipantAsset,
              ParticipantAddress |-> cmd.ParticipantAddress,
              SecondaryAsset |-> getSecondaryAsset(cmd.ParticipantAsset, plan.Assets),
              ShareValue |-> plan.Quantum,
              InvestingPeriod |-> plan.InvestingPeriod,
              WalletSecurity |-> plan.Security,
              ProfitSharingStrategy |-> plan.Strategy,
              LossProtection |-> plan.LossProtection ]),
        PairStatusWaiting)

\* createOrMatchPairHandler.Handle, a candidate was loaded: PairMatched and
\* PairStatusChanged(wallet_conformation) tracked on it, whatever its status
TrackPairMatched(p, cmd) ==
    StatusChanged(
        TrackChange(p, "Pair", "PairMatched",
            [ ParticipantAddress |-> cmd.ParticipantAddress,
              WalletEncryptionKey |-> "", WalletHexChainCode |-> "" ]),
        PairStatusWalletConformation)

\* confirmPairWalletHandler.Handle after the load
ConfirmPairWalletCheck(p, cmd) ==
    IF p.Status # PairStatusWalletConformation THEN Err("invalid_pair_status")
    ELSE IF ~HasAsset(p, cmd.ParticipantAsset) THEN Err("invalid_asset_for_pair")
    ELSE IF \E asset \in DOMAIN cmd.WalletAddresses : ~HasAsset(p, asset)
         THEN Err("invalid_asset_for_pair")
    ELSE IF p.Wallet # Nil /\ ~AreAddressesEqual(p.Wallet[1], cmd.WalletAddresses)
         THEN Err("invalid_wallet_addresses")
    ELSE LET q == TrackChange(p, "Pair", "WalletAddressConfirmed",
                      [ ParticipantAsset |-> cmd.ParticipantAsset,
                        PublicKey |-> cmd.ParticipantPublicKey,
                        WalletAddresses |-> cmd.WalletAddresses ])
         IN  IF MapLen(q.Wallet[1].PublicKeys) = 2
             THEN Ok(StatusChanged(q, PairStatusAssurance))
             ELSE Ok(q)

SetPairAssurancesCheckOneSuffices(p, cmd) ==
    IF p.Status # PairStatusAssurance THEN Err("invalid_pair_status")
    ELSE IF ~HasAsset(p, cmd.ParticipantAsset) THEN Err("invalid_asset_for_pair")
    ELSE IF HasAssurancesForAsset(p, cmd.ParticipantAsset)
         THEN Err("already_set_assurances")
    ELSE Ok(StatusChanged(TrackAssurances(p, cmd.ParticipantAsset, cmd.Assurances), PairStatusDeposit))

\* setPairAssurancesHandler.Handle after the load
SetPairAssurancesCheck(p, cmd) ==
    IF p.Status # PairStatusAssurance THEN Err("invalid_pair_status")
    ELSE IF ~HasAsset(p, cmd.ParticipantAsset) THEN Err("invalid_asset_for_pair")
    ELSE IF HasAssurancesForAsset(p, cmd.ParticipantAsset)
         THEN Err("already_set_assurances")
    ELSE LET q == TrackAssurances(p, cmd.ParticipantAsset, cmd.Assurances)
         IN  IF MapLen(q.Assurances) = 2
             THEN Ok(StatusChanged(q, PairStatusDeposit))
             ELSE Ok(q)

AddDepositCheckOneSuffices(p, cmd) ==
    IF p.Status # PairStatusDeposit THEN Err("invalid_pair_status")
    ELSE IF ~HasAsset(p, cmd.Asset) THEN Err("invalid_asset_for_pair")
    ELSE IF HasDepositForAsset(p, cmd.Asset) THEN Err("already_has_deposit")
    ELSE Ok(StatusChanged(TrackChange(p, "Pair", "AssetDeposited", [ Asset |-> cmd.Asset, TxHash |-> cmd.TxHash ]), PairStatusPreSignWithdrawal))

\* addDepositHandler.Handle after the load
AddDepositCheck(p, cmd) ==
    IF p.Status # PairStatusDeposit THEN Err("invalid_pair_status")
    ELSE IF ~HasAsset(p, cmd.Asset) THEN Err("invalid_asset_for_pair")
    ELSE IF HasDepositForAsset(p, cmd.Asset) THEN Err("already_has_deposit")
    ELSE LET q == TrackChange(p, "Pair", "AssetDeposited",
                      [ Asset |-> cmd.Asset, TxHash |-> cmd.TxHash ])
         IN  IF MapLen(q.Deposits) = 2
             THEN Ok(StatusChanged(q, PairStatusPreSignWithdrawal))
             ELSE Ok(q)

\* signWithdrawalHandler.Handle without its check of the status
SignWithdrawalCheckAnyStatus(p, cmd) ==
    Ok(StatusChanged(TrackChange(p, "Pair", "WithdrawTxSigned", [ Tx |-> cmd.Tx ]), PairStatusLP))

\* signWithdrawalHandler.Handle after the load
SignWithdrawalCheck(p, cmd) ==
    IF p.Status # PairStatusPreSignWithdrawal THEN Err("invalid_pair_status")
    ELSE Ok(StatusChanged(
                TrackChange(p, "Pair", "WithdrawTxSigned", [ Tx |-> cmd.Tx ]),
                PairStatusLP))

LPPairCheckWithdraws(p, cmd) ==
    IF p.Status # PairStatusLP THEN Err("invalid_pair_status")
    ELSE IF ~HasAsset(p, cmd.Asset) THEN Err("invalid_asset_for_pair")
    ELSE IF HasLPForAsset(p, cmd.Asset) THEN Err("already_has_lp")
    ELSE LET q == TrackChange(p, "Pair", "LPDone", [ Asset |-> cmd.Asset, TxHash |-> cmd.TxHash, Deadline |-> p.InvestingPeriod * week ])
         IN  IF MapLen(q.LP) = 2 THEN Ok(StatusChanged(q, PairStatusWithdrawn)) ELSE Ok(q)

\* lpPairHandler.Handle after the load; the deadline is counted in days
\* from the time of the call
LPPairCheck(p, cmd) ==
    IF p.Status # PairStatusLP THEN Err("invalid_pair_status")
    ELSE IF ~HasAsset(p, cmd.Asset) THEN Err("invalid_asset_for_pair")
    ELSE IF HasLPForAsset(p, cmd.Asset) THEN Err("already_has_lp")
    ELSE Ok(TrackChange(p, "Pair", "LPDone",
                [ Asset |-> cmd.Asset, TxHash |-> cmd.TxHash,
                  Deadline |-> p.InvestingPeriod * week ]))

\* the start of a handler of a pair: common.Validate, then
\* repo.GetWithContext, which gave got, then the checks r of the handler on
\* the loaded pair
Handled(valid, got, r) ==
    IF ~valid THEN Err("invalid_request")
    ELSE IF ~got.found THEN Err("pair_not_found")
    ELSE r

\* createOrMatchPairHandler.Handle up to the Find: the code of the error it
\* returns, "" when it goes on (the error of PlansQuery.Get is wrapped, its
\* code is that of ErrPlanNotFound)
CreateOrMatchPairRejects(cmd) ==
    IF ~ValidCreateOrMatchPair(cmd) THEN "invalid_request"
    ELSE IF ~PlansGet(plans_query, cmd.PlanId).found THEN "plan_not_found"
    ELSE IF ~containsAsset(PlansGet(plans_query, cmd.PlanId).plan.Assets, cmd.ParticipantAsset)
         THEN "invalid_asset_for_pair"
    ELSE ""

\* confirmPairWalletHandler.Handle up to the save
ConfirmPairWalletHandle(got, cmd) ==
    Handled(ValidConfirmPairWallet(cmd), got, ConfirmPairWalletCheck(got.p, cmd))

\* setPairAssurancesHandler.Handle up to the save: the assurances are
\* validated before the pair is loaded
SetPairAssurancesHandle(got, cmd) ==
    IF ~ValidSetPairAssurances(cmd) THEN Err("invalid_request")
    ELSE IF validateAssurances(cmd.ParticipantAsset, cmd.Assurances) # "" THEN Err("invalid_assurances")
    ELSE Handled(TRUE, got, SetPairAssurancesCheck(got.p, cmd))

\* addDepositHandler.Handle up to the save
AddDepositHandle(got, cmd) ==
    Handled(cmd.TxHash # "", got, AddDepositCheck(got.p, cmd))

\* signWithdrawalHandler.Handle up to the save
SignWithdrawalHandle(got, cmd) ==
    Handled(TRUE, got, SignWithdrawalCheck(got.p, cmd))

\* lpPairHandler.Handle up to the save
LPPairHandle(got, cmd) ==
    Handled(cmd.TxHash # "", got, LPPairCheck(got.p, cmd))

\* ------------------------------------------------------------------ actions
\* createNewPlanHandler.Handle: validate, track PlanCreated, save. The plan
\* is new, so the save reads nothing another handler writes.
CreateNewPlan ==
    \E cmd \in CreateNewPlanInputs :
        /\ Accepting
        /\ IF ~ValidCreateNewPlan(cmd)
           THEN Fails("CreateNewPlan", NoID, "invalid_request")
           ELSE /\ uuids.plan < MaxPlans
                /\ events' = InsertEvents(events,
                                 TrackPlanCreated(PlanID(uuids.plan + 1), cmd).Events)
                /\ uuids' = [ uuids EXCEPT !.plan = @ + 1 ]
                /\ UNCHANGED << started, handlers, projections, plans_query, pairs_query >>

CandidateLast(pairs) == pairs[Len(pairs)]

\* pairs[0]: the candidate the match branch loads
Candidate(pairs) == pairs[1]

\* createOrMatchPairHandler.Handle up to the branch on len(pairs): both
\* reads are of the read models. Without a candidate the new pair is tracked
\* here; with one, the handler goes on to load pairs[0]. uuid.New() gives
\* out at most limit pair ids.
CreateOrMatchPairWithin(h, cmd, limit) ==
    LET op == "CreateOrMatchPair"
        asset == cmd.ParticipantAsset
        got == PlansGet(plans_query, cmd.PlanId)
        plan == got.plan
        secondaryAsset == getSecondaryAsset(asset, plan.Assets)
        pairs == Find(pairs_query, Ptr(PairStatusWaiting),
                      << secondaryAsset, asset >>, TRUE, << >>,
                      Ptr(plan.Quantum), Ptr(plan.InvestingPeriod),
                      Ptr(plan.Security), Ptr(plan.Strategy),
                      Ptr(plan.LossProtection))
        created == TrackPairCreated(PairID(uuids.pair + 1), cmd, plan)
    IN  IF CreateOrMatchPairRejects(cmd) # ""
             THEN Fails(op, NoID, CreateOrMatchPairRejects(cmd))
        ELSE IF Len(pairs) < 1
             THEN /\ uuids.pair < limit
                  /\ uuids' = [ uuids EXCEPT !.pair = @ + 1 ]
                  /\ Tracks(h, op, created)
        ELSE /\ handlers' = [ handlers EXCEPT ![h] =
                     [ IdleSlot EXCEPT !.pc = "load", !.op = op,
                                       !.id = Candidate(pairs).Id, !.asset = asset,
                                       !.plan = cmd.PlanId, !.addr = cmd.ParticipantAddress ] ]
             /\ UNCHANGED << events, started, uuids, projections, plans_query, pairs_query >>

CreateOrMatchPairHandle(h, cmd) == CreateOrMatchPairWithin(h, cmd, MaxPairs)

\* a CreateOrMatchPair command reaches its handler
CreateOrMatchPairFind(h) ==
    \E planId \in PlanIdInputs, asset \in AssetInputs \cup { "" },
       address \in AddressInputs :
        /\ FreeSlot(h)
        /\ Accepting
        /\ CreateOrMatchPairHandle(h, [ PlanId |-> planId, ParticipantAsset |-> asset,
                                        ParticipantAddress |-> address ])

\* createOrMatchPairHandler.Handle, the match branch: load pairs[0] from the
\* event store and track the match on whatever state it is in now
CreateOrMatchPairGet(h) ==
    /\ handlers[h].pc = "load"
    /\ KeepingUp
    /\ LET op == handlers[h].op
           id == handlers[h].id
           got == GetPair(events, id)
           matched == TrackPairMatched(got.p, [ ParticipantAddress |-> handlers[h].addr ])
       IN  IF ~got.found
           THEN /\ handlers' = [ handlers EXCEPT ![h] = IdleSlot ]
                /\ UNCHANGED << events, started, uuids, projections, plans_query, pairs_query >>
           ELSE /\ Tracks(h, op, matched)
                /\ UNCHANGED uuids

ConfirmPairWallet(h) ==
    \E id \in PairIdInputs, asset \in AssetInputs, key \in PublicKeyInputs,
       keys \in { { ThorRune, BtcBtc }, { ThorRune, EthEth } },
       address \in WalletAddressInputs :
        LET op == "ConfirmPairWallet"
            cmd == [ PairId |-> id, ParticipantAsset |-> asset,
                     ParticipantPublicKey |-> key,
                     WalletAddresses |-> [ a \in keys |-> address ] ]
        IN  /\ FreeSlot(h)
            /\ Accepting
            /\ Returned(h, op, id, ConfirmPairWalletHandle(GetPair(events, id), cmd))

SetPairAssurances(h) ==
    \E id \in PairIdInputs, asset \in AssetInputs, assurances \in AssuranceInputs :
        LET op == "SetPairAssurances"
            cmd == [ PairId |-> id, ParticipantAsset |-> asset,
                     Assurances |-> assurances ]
        IN  /\ FreeSlot(h)
            /\ Accepting
            /\ Returned(h, op, id, SetPairAssurancesHandle(GetPair(events, id), cmd))

AddDeposit(h) ==
    \E id \in PairIdInputs, asset \in AssetInputs, txHash \in TxHashInputs :
        LET op == "AddDeposit"
            cmd == [ PairId |-> id, Asset |-> asset, TxHash |-> txHash ]
        IN  /\ FreeSlot(h)
            /\ Accepting
            /\ Returned(h, op, id, AddDepositHandle(GetPair(events, id), cmd))

SignWithdrawal(h) ==
    \E id \in PairIdInputs :
        LET op == "SignWithdrawal"
            cmd == [ PairId |-> id, Tx |-> SignedTx(4) ]
        IN  /\ FreeSlot(h)
            /\ Accepting
            /\ Returned(h, op, id, SignWithdrawalHandle(GetPair(events, id), cmd))

LPPair(h) ==
    \E id \in PairIdInputs, asset \in AssetInputs, txHash \in TxHashInputs :
        LET op == "LPPair"
            cmd == [ PairId |-> id, Asset |-> asset, TxHash |-> txHash ]
        IN  /\ FreeSlot(h)
            /\ Accepting
            /\ Returned(h, op, id, LPPairHandle(GetPair(events, id), cmd))

\* EventRepository.Save of the pair a handler holds: the version check and
\* the inserts are one transaction of the event store
Save(h) ==
    /\ handlers[h].pc = "save"
    /\ KeepingUp
    /\ LET p == handlers[h].p
           current == CurrentVersion(events, p.ID, "Pair")
       IN  IF VersionMatches(current, p.Events)
           THEN events' = InsertEvents(events, p.Events)
           ELSE events' = events
    /\ handlers' = [ handlers EXCEPT ![h] = IdleSlot ]
    /\ UNCHANGED << started, uuids, projections, plans_query, pairs_query >>

\* BaseProjection.Fetch, then the callback on the first event fetched:
\* PlansQuery.Callback inserts the plan row and increments the cursor
PlansCallback ==
    LET fetched == All(events, projections["plans_query"] + 1, projectionCount)
        e == fetched[1]
    IN  /\ fetched # << >>
        /\ plans_query' = IF e.Reason = "PlanCreated"
                          THEN insertPlan(plans_query, e.AggregateID, e.Data)
                          ELSE plans_query
        /\ projections' = [ projections EXCEPT !["plans_query"] = @ + 1 ]
        /\ UNCHANGED << events, started, uuids, handlers, pairs_query >>

\* BaseProjection.Fetch, then PairsQuery.Callback on the first event
\* fetched: Begin increments the cursor in the transaction that applies
\* the event
PairsCallback ==
    LET fetched == All(events, projections["pairs_query"] + 1, projectionCount)
        e == fetched[1]
    IN  /\ fetched # << >>
        /\ pairs_query' = PairsApply(pairs_query, e)
        /\ projections' = [ projections EXCEPT !["pairs_query"] = @ + 1 ]
        /\ UNCHANGED << events, started, uuids, handlers, plans_query >>

\* ------------------------------------------------------------------ specification
\* The server starts on the database an earlier run left (sqles.Open and
\* NewBaseProjection create their tables only if they are missing). The
\* logs below are what the handlers above write when one plan and one pair
\* are taken, one command after the other, to the named status.
Commit(log, p) == InsertEvents(log, p.Events)
Stored(log) == GetPair(log, PairID(1)).p

StartPlan ==
    [ Assets |-> << ThorRune, BtcBtc >>, Security |-> "2-2",
      Strategy |-> "equal_share", Quantum |-> 100, LossProtection |-> 10,
      InvestingPeriod |-> 4 ]

StartConfirm(asset, key) ==
    [ PairId |-> PairID(1), ParticipantAsset |-> asset, ParticipantPublicKey |-> key,
      WalletAddresses |-> [ a \in { ThorRune, BtcBtc } |-> "" ] ]

StartAssurances(asset, assurances) ==
    [ PairId |-> PairID(1), ParticipantAsset |-> asset, Assurances |-> assurances ]

LogEmpty == << >>

LogMatched ==
    LET l1 == Commit(LogEmpty, TrackPlanCreated(PlanID(1), StartPlan))
        l2 == Commit(l1, TrackPairCreated(PairID(1),
                            [ ParticipantAsset |-> ThorRune,
                              ParticipantAddress |-> "addr1" ], StartPlan))
    IN  Commit(l2, TrackPairMatched(Stored(l2), [ ParticipantAddress |-> "addr2" ]))

LogAssurance ==
    LET l1 == Commit(LogMatched,
                     ConfirmPairWalletCheck(Stored(LogMatched),
                                            StartConfirm(ThorRune, "pk1")).p)
    IN  Commit(l1, ConfirmPairWalletCheck(Stored(l1), StartConfirm(BtcBtc, "pk2")).p)

LogDeposit ==
    LET l1 == Commit(LogAssurance,
                     SetPairAssurancesCheck(Stored(LogAssurance),
                         StartAssurances(ThorRune,
                             << SignedTx(0), SignedTx(2), SignedTx(4) >>)).p)
    IN  Commit(l1, SetPairAssurancesCheck(Stored(l1),
                         StartAssurances(BtcBtc, << SignedTx(0), SignedTx(2) >>)).p)

RECURSIVE ProjectPlans(_, _)
\* plans_query after its projection has handled every event of log
ProjectPlans(rows, log) ==
    IF log = << >> THEN rows
    ELSE ProjectPlans(IF log[1].Reason = "PlanCreated"
                      THEN insertPlan(rows, log[1].AggregateID, log[1].Data)
                      ELSE rows, Tail(log))

RECURSIVE ProjectPairs(_, _)
\* pairs_query after its projection has handled every event of log
ProjectPairs(rows, log) ==
    IF log = << >> THEN rows
    ELSE ProjectPairs(PairsApply(rows, log[1]), Tail(log))

Init ==
    \E log \in { LogEmpty, LogAssurance, LogDeposit } :
        /\ events = log
        /\ started = Len(log)
        /\ uuids = IF log = LogEmpty THEN [ plan |-> 0, pair |-> 0 ]
                   ELSE [ plan |-> 1, pair |-> 1 ]
        /\ handlers = [ h \in Procs |-> IdleSlot ]
        /\ projections = [ n \in { "plans_query", "pairs_query" } |-> Len(log) ]
        /\ plans_query = ProjectPlans(<< >>, log)
        /\ pairs_query = ProjectPairs(<< >>, log)
        /\ runners = [ n \in ProjectionNames |-> IdleRunner ]
        /\ applied = [ n \in ProjectionNames |-> << >> ]
        /\ failsafe = FALSE
        /\ faults = << >>
        /\ AuthStart

\* a run of a projection is one step here (PlansCallback, PairsCallback);
\* SpecProjection below takes a run apart
Next ==
    \/ CreateNewPlan /\ UNCHANGED << projvars, authvars >>
    \/ \E h \in Procs : CreateOrMatchPairFind(h) /\ UNCHANGED << projvars, authvars >>
    \/ \E h \in Procs : CreateOrMatchPairGet(h) /\ UNCHANGED << projvars, authvars >>
    \/ \E h \in Procs : ConfirmPairWallet(h) /\ UNCHANGED << projvars, authvars >>
    \/ \E h \in Procs : SetPairAssurances(h) /\ UNCHANGED << projvars, authvars >>
    \/ \E h \in Procs : AddDeposit(h) /\ UNCHANGED << projvars, authvars >>
    \/ \E h \in Procs : SignWithdrawal(h) /\ UNCHANGED << projvars, authvars >>
    \/ \E h \in Procs : LPPair(h) /\ UNCHANGED << projvars, authvars >>
    \/ \E h \in Procs : Save(h) /\ UNCHANGED << projvars, authvars >>
    \/ PlansCallback /\ UNCHANGED << projvars, authvars >>
    \/ PairsCallback /\ UNCHANGED << projvars, authvars >>

Spec == Init /\ [][Next]_vars

\* ------------------------------------------------------------------ properties
\* the stored events of a pair, and the pair they replay to
PairStream(id) == StreamOf(events, id, "Pair")
StoredPair(id) == GetPair(events, id).p

\* how many events of stream have this reason
Count(stream, reason) ==
    Cardinality({ i \in 1 .. Len(stream) : stream[i].Reason = reason })

\* the events of stream with this reason about this asset
OfAsset(stream, reason, asset) ==
    SelectSeq(stream, LAMBDA e :
        /\ e.Reason = reason
        /\ IF reason = "WalletAddressConfirmed" THEN e.Data.ParticipantAsset = asset
           ELSE e.Data.Asset = asset)

\* the handler in slot h is about to save events of reason `reason` as the
\* first of its batch, for command op
Saving(h, op, reason) ==
    /\ handlers[h].pc = "save"
    /\ handlers[h].op = op
    /\ handlers[h].p.Events[1].Reason = reason

\* the version the pair of slot h had when the handler loaded it
LoadedVersion(h) == handlers[h].p.Events[1].Version - 1

\* slot h returns in this step
Returns(h) == handlers[h].pc # "idle" /\ handlers'[h].pc = "idle"

\* this step appends exactly the batch of slot h to the log
AppendsBatchOf(h) ==
    LET batch == handlers[h].p.Events
    IN  /\ Len(events') = Len(events) + Len(batch)
        /\ SubSeq(events', 1, Len(events)) = events
        /\ \A i \in 1 .. Len(batch) :
               LET e == events'[Len(events) + i]
               IN  /\ e.AggregateID = batch[i].AggregateID
                   /\ e.Version = batch[i].Version
                   /\ e.Reason = batch[i].Reason
                   /\ e.Data = batch[i].Data

\* ---- C1
\* C1: the event stream of every pair holds at most one PairMatched event,
\* whatever the interleaving of CreateOrMatchPair handlers and projection
\* ticks (so the second participant address is set once and not replaced).
AtMostOnePairMatched ==
    \A id \in IssuedPairs :
        Count(PairStream(id), "PairMatched") <= 1

\* ---- C2
\* C2: of the CreateOrMatchPair handlers that loaded the same pair at the
\* same version and tracked PairMatched, the one that saves while the pair
\* is still at that version commits its whole batch, and every one that
\* saves after it appends nothing.
OneMatchSaveCommits ==
    [][ \A h \in Procs :
          Saving(h, "CreateOrMatchPair", "PairMatched") /\ Returns(h) =>
              IF Len(PairStream(handlers[h].p.ID)) = LoadedVersion(h)
              THEN AppendsBatchOf(h)
              ELSE events' = events ]_vars

\* a handler still holds a PairMatched for a version at which the store
\* already has the PairMatched of another handler
MatchSaveLost ==
    \E h \in Procs :
        /\ Saving(h, "CreateOrMatchPair", "PairMatched")
        /\ LET stream == PairStream(handlers[h].p.ID)
               v == handlers[h].p.Events[1].Version
           IN  Len(stream) >= v /\ stream[v].Reason = "PairMatched"

\* ---- C3
\* C3: a CreateOrMatchPair handler whose save meets a concurrency conflict
\* does not return to its caller on that conflict: it goes back to the
\* read-model query and tries again.
ConflictIsRetried ==
    [][ \A h \in Procs :
          /\ handlers[h].pc = "save"
          /\ handlers[h].op = "CreateOrMatchPair"
          /\ ~VersionMatches(CurrentVersion(events, handlers[h].p.ID, "Pair"),
                             handlers[h].p.Events)
          /\ handlers'[h] # handlers[h]
          => handlers'[h].pc # "idle" ]_vars

\* ---- C4
\* C4: the PairStatusChanged events of every pair carry, in order, the
\* statuses waiting, wallet_conformation, assurance, deposit,
\* pre_sign_withdrawal, lp, withdrawn: each one step after the one before,
\* none repeated, none skipped, none going back.
StatusMovesOneStep ==
    \A id \in IssuedPairs :
        LET changes == SelectSeq(PairStream(id),
                                 LAMBDA e : e.Reason = "PairStatusChanged")
        IN  /\ Len(changes) <= Len(StatusOrder)
            /\ \A i \in 1 .. Len(changes) : changes[i].Data.Status = StatusOrder[i]

\* ---- C5
\* the pairs as the store has them and as the handlers about to save hold them
PairsAfterCommands ==
    { StoredPair(id) : id \in IssuedPairs }
        \cup { handlers[h].p : h \in { g \in Procs : handlers[g].pc = "save" } }

DepositAndLPOncePerAsset ==
    \A id \in IssuedPairs, asset \in AssetInputs :
        /\ Len(OfAsset(PairStream(id), "AssetDeposited", asset)) <= 1
        /\ Len(OfAsset(PairStream(id), "LPDone", asset)) <= 1

\* two AddDeposit handlers loaded the pair before either saved: the deposit
\* of one is stored and the other still holds its own for the same asset
ConcurrentDepositLost ==
    \E h \in Procs :
        /\ Saving(h, "AddDeposit", "AssetDeposited")
        /\ \E i \in 1 .. Len(PairStream(handlers[h].p.ID)) :
               LET e == PairStream(handlers[h].p.ID)[i]
               IN  /\ e.Reason = "AssetDeposited"
                   /\ e.Data.Asset = handlers[h].p.Events[1].Data.Asset
                   /\ e.Version = handlers[h].p.Events[1].Version

\* ---- C7
\* C7: for every pair and asset the stream holds at most one
\* WalletAddressConfirmed of that participant asset (wallet.public_keys of
\* the asset and wallet.addresses are written once).
WalletConfirmedOncePerAsset ==
    \A id \in IssuedPairs, asset \in AssetInputs :
        Len(OfAsset(PairStream(id), "WalletAddressConfirmed", asset)) <= 1

\* ---- C8
\* C8: every stored plan and every stored pair has two assets, distinct and
\* not empty.
AssetsTwoDistinct ==
    \A i \in 1 .. Len(events) :
        LET e == events[i]
        IN  /\ e.Reason = "PlanCreated" =>
                   /\ Len(e.Data.Assets) = 2
                   /\ e.Data.Assets[1] # e.Data.Assets[2]
                   /\ \A k \in 1 .. Len(e.Data.Assets) : e.Data.Assets[k] # ""
            /\ e.Reason = "PairCreated" =>
                   /\ e.Data.ParticipantAsset # e.Data.SecondaryAsset
                   /\ e.Data.ParticipantAsset # ""
                   /\ e.Data.SecondaryAsset # ""

\* ---- C9
\* C9: the versions of the stored events of every aggregate are 1, 2, .. n
\* in order: no gap and no version twice.
VersionsContiguous ==
    \A i \in 1 .. Len(events) :
        LET stream == StreamOf(events, events[i].AggregateID, events[i].AggregateType)
        IN  \A k \in 1 .. Len(stream) : stream[k].Version = k

\* two ConfirmPairWallet handlers loaded the pair at the same version: the
\* event of one is stored at the version the other still holds its own for
ConcurrentConfirmLost ==
    \E h \in Procs :
        /\ Saving(h, "ConfirmPairWallet", "WalletAddressConfirmed")
        /\ LET stream == PairStream(handlers[h].p.ID)
               v == handlers[h].p.Events[1].Version
           IN  Len(stream) >= v /\ stream[v].Reason = "WalletAddressConfirmed"

\* ---- C10
\* in the stream, every event of reason `reason` is followed at once by a
\* PairStatusChanged to status
FollowedBy(stream, reason, status) ==
    \A k \in 1 .. Len(stream) :
        stream[k].Reason = reason =>
            /\ k < Len(stream)
            /\ stream[k + 1].Reason = "PairStatusChanged"
            /\ stream[k + 1].Data.Status = status

BatchesWhole ==
    \A id \in IssuedPairs :
        /\ FollowedBy(PairStream(id), "PairCreated", PairStatusWaiting)
        /\ FollowedBy(PairStream(id), "PairMatched", PairStatusWalletConformation)
        /\ FollowedBy(PairStream(id), "WithdrawTxSigned", PairStatusLP)

\* C10: the events of one command are stored all or none: in every pair's
\* stream PairCreated is followed at once by PairStatusChanged(waiting),
\* PairMatched by PairStatusChanged(wallet_conformation) and
\* WithdrawTxSigned by PairStatusChanged(lp), and a save that meets a
\* conflict leaves the log as it was.
BatchesAllOrNothing ==
    /\ []BatchesWhole
    /\ [][ \A h \in Procs :
             /\ handlers[h].pc = "save"
             /\ Returns(h)
             /\ Len(PairStream(handlers[h].p.ID)) # LoadedVersion(h)
             => events' = events ]_vars

\* a withdraw transaction was signed and stored, and a handler holds a
\* batch of two events whose save will meet a conflict
SignedStoredAndBatchLost ==
    /\ \E id \in IssuedPairs :
           \E k \in 1 .. Len(PairStream(id)) :
               PairStream(id)[k].Reason = "WithdrawTxSigned"
    /\ \E h \in Procs :
           /\ handlers[h].pc = "save"
           /\ Len(handlers[h].p.Events) >= 2
           /\ Len(PairStream(handlers[h].p.ID)) # LoadedVersion(h)

\* ------------------------------------------------------------------ projection runtime
\* failed statements, restarts and resets in one behaviour
MaxFaults == 2

\* registerProjection: `create table if not exists projections`, then
\* `insert ... values (name, 0) on conflict do nothing`
registerProjection(cursors, name) ==
    IF name \in DOMAIN cursors THEN cursors ELSE MapPut(cursors, name, 0)

\* getLastHandledEventSeq: the scan fails when the table or the row is missing
getLastHandledEventSeq(cursors, name) ==
    IF name \in DOMAIN cursors THEN [ err |-> FALSE, last |-> cursors[name] ]
    ELSE [ err |-> TRUE, last |-> 0 ]

isFirstRunAlways(cursors, name) == TRUE

isFirstRun(cursors, name) == getLastHandledEventSeq(cursors, name).last = 0

dropTableNever(cursors, name, rows) == rows

\* dropTableIfFirstRun, then the query's `create table if not exists`:
\* the read table a restarted server goes on with
dropTableIfFirstRun(cursors, name, rows) ==
    IF isFirstRun(cursors, name) THEN << >> ELSE rows

\* incrementProjection: `update projections set last_handled_event_seq =
\* last_handled_event_seq + 1 where id = ?`
incrementProjection(cursors, name) == [ cursors EXCEPT ![name] = @ + 1 ]

\* BaseProjection.Increment, called by PlansQuery.Callback: the cursor of
\* the projection plus one, in a statement of its own
Increment(cursors, name) == [ cursors EXCEPT ![name] = @ + 1 ]

FetchFromLast(cursors, name, log) ==
    LET last == getLastHandledEventSeq(cursors, name)
    IN  IF last.err THEN [ err |-> TRUE, events |-> << >> ]
        ELSE [ err |-> FALSE,
               events |-> All(log, IF last.last = 0 THEN 1 ELSE last.last,
                              projectionCount) ]

\* BaseProjection.Fetch: the events after the cursor, at most projectionCount
Fetch(cursors, name, log) ==
    LET last == getLastHandledEventSeq(cursors, name)
    IN  IF last.err THEN [ err |-> TRUE, events |-> << >> ]
        ELSE [ err |-> FALSE, events |-> All(log, last.last + 1, projectionCount) ]

newCacheIteratorAtFirst(fetched) == [ pc |-> "next", events |-> fetched, pos |-> 0 ]

\* newCacheIterator: the fetched events in memory, the position before the first
newCacheIterator(fetched) == [ pc |-> "next", events |-> fetched, pos |-> -1 ]

\* cacheIterator.Next (the test) and cacheIterator.Value after it
HasNext(it) == it.pos + 1 < Len(it.events)
Value(it) == it.events[it.pos + 2]
Advance(it) == [ it EXCEPT !.pos = @ + 1 ]

\* id VARCHAR PRIMARY KEY: an insert of an id the table holds fails
HasRow(rows, id) == \E i \in 1 .. Len(rows) : rows[i].Id = id

\* whether the callback of the projection changes its read table on e
HasEffect(name, e) ==
    IF name = "plans_query" THEN e.Reason = "PlanCreated"
    ELSE e.AggregateType = "Pair"

\* what the run does after the callback returned err: the wrapper logs the
\* error and returns nil, so the run goes on with the next cached event;
\* without it the run ends and its goroutine with it
AfterCallback(it, err, wrapped) ==
    IF err /\ ~wrapped THEN [ IdleRunner EXCEPT !.pc = "stopped" ]
    ELSE [ Advance(it) EXCEPT !.pc = "next" ]

\* PairsQuery.Callback: Begin (the transaction, the cursor plus one), the
\* switch, Commit; any error leaves to the deferred Rollback
PairsCallbackTx(cursors, rows, e, fault) ==
    IF \/ "pairs_query" \notin DOMAIN cursors
       \/ fault
       \/ e.Reason = "PairCreated" /\ HasRow(rows, e.AggregateID)
    THEN [ err |-> TRUE, cursors |-> cursors, rows |-> rows ]
    ELSE [ err |-> FALSE, cursors |-> incrementProjection(cursors, "pairs_query"),
           rows |-> PairsApply(rows, e) ]

\* the switch of PlansQuery.Callback: insertPlan through the pool, which
\* commits the statement at once
PlansCallbackInsert(rows, e, fault) ==
    IF e.Reason # "PlanCreated" THEN [ err |-> FALSE, rows |-> rows ]
    ELSE IF fault \/ HasRow(rows, e.AggregateID) THEN [ err |-> TRUE, rows |-> rows ]
    ELSE [ err |-> FALSE, rows |-> insertPlan(rows, e.AggregateID, e.Data) ]

\* a statement of a callback may return an error (the database locked by
\* another writer, the disk full) while the bound on faults allows
MayFail == IF Len(faults) < MaxFaults THEN BOOLEAN ELSE { FALSE }
Counted(fault) == IF fault THEN Append(faults, "statement") ELSE faults

\* one run of the library's projection starts: Fetch. With nothing to fetch
\* the run ends at once and the goroutine sleeps its Pace; a failed Fetch
\* ends the goroutine, or is an empty iterator under the wrapper
RunFetch(n) ==
    LET f == Fetch(projections, n, events)
    IN  /\ runners[n].pc = "fetch"
        /\ IF f.err THEN ~failsafe /\ runners' = [ runners EXCEPT ![n].pc = "stopped" ]
           ELSE f.events # << >> /\ runners' = [ runners EXCEPT ![n] = newCacheIterator(f.events) ]
        /\ UNCHANGED << events, started, uuids, handlers, projections, plans_query,
                        pairs_query, applied, failsafe, faults >>

\* the run finds its iterator at its end and returns
RunEnd(n) ==
    /\ runners[n].pc = "next"
    /\ ~HasNext(runners[n])
    /\ runners' = [ runners EXCEPT ![n] = IdleRunner ]
    /\ UNCHANGED << events, started, uuids, handlers, projections, plans_query,
                    pairs_query, applied, failsafe, faults >>

\* the run hands the next cached event to PairsQuery.Callback
RunPairsCallback ==
    LET it == runners["pairs_query"]
        e == Value(it)
    IN  /\ it.pc = "next"
        /\ HasNext(it)
        /\ \E fault \in MayFail :
             LET r == PairsCallbackTx(projections, pairs_query, e, fault)
             IN  /\ projections' = r.cursors
                 /\ pairs_query' = r.rows
                 /\ applied' = IF ~r.err
                               THEN [ applied EXCEPT !["pairs_query"] =
                                          Append(@, e.GlobalVersion) ]
                               ELSE applied
                 /\ runners' = [ runners EXCEPT !["pairs_query"] =
                                     AfterCallback(it, r.err, failsafe) ]
                 /\ faults' = Counted(fault)
        /\ UNCHANGED << events, started, uuids, handlers, plans_query, failsafe >>

\* the run hands the next cached event to PlansQuery.Callback, which gets
\* as far as its switch: the insert of a PlanCreated is in effect from here
RunPlansInsert ==
    LET it == runners["plans_query"]
        e == Value(it)
    IN  /\ it.pc = "next"
        /\ HasNext(it)
        /\ \E fault \in MayFail :
             LET r == PlansCallbackInsert(plans_query, e, fault /\ e.Reason = "PlanCreated")
             IN  /\ plans_query' = r.rows
                 /\ applied' = IF ~r.err /\ HasEffect("plans_query", e)
                               THEN [ applied EXCEPT !["plans_query"] =
                                          Append(@, e.GlobalVersion) ]
                               ELSE applied
                 /\ runners' = [ runners EXCEPT !["plans_query"] =
                                     IF r.err THEN AfterCallback(it, TRUE, failsafe)
                                     ELSE [ it EXCEPT !.pc = "increment" ] ]
                 /\ faults' = Counted(fault /\ e.Reason = "PlanCreated")
        /\ UNCHANGED << events, started, uuids, handlers, projections, pairs_query,
                        failsafe >>

\* PlansQuery.Callback goes on to pq.Increment() and returns
RunPlansIncrement ==
    LET it == runners["plans_query"]
    IN  /\ it.pc = "increment"
        /\ \E fault \in MayFail :
             LET err == fault \/ "plans_query" \notin DOMAIN projections
                 e == Value(it)
             IN  /\ projections' = IF err THEN projections
                                   ELSE Increment(projections, "plans_query")
                 /\ applied' = IF ~err /\ ~HasEffect("plans_query", e)
                               THEN [ applied EXCEPT !["plans_query"] =
                                          Append(@, e.GlobalVersion) ]
                               ELSE applied
                 /\ runners' = [ runners EXCEPT !["plans_query"] =
                                     AfterCallback(it, err, failsafe) ]
                 /\ faults' = Counted(fault)
        /\ UNCHANGED << events, started, uuids, handlers, plans_query, pairs_query,
                        failsafe >>

\* the process ends (a crash, a deploy) and NewApplication runs again:
\* newQueries builds both queries, StartProjections starts their goroutines
Restart ==
    LET registered == registerProjection(registerProjection(projections, "plans_query"),
                                         "pairs_query")
    IN  /\ Len(faults) < MaxFaults
        /\ faults' = Append(faults, "restart")
        /\ projections' = registered
        /\ plans_query' = dropTableIfFirstRun(registered, "plans_query", plans_query)
        /\ pairs_query' = dropTableIfFirstRun(registered, "pairs_query", pairs_query)
        /\ applied' = [ n \in ProjectionNames |->
                          IF isFirstRun(registered, n) THEN << >> ELSE applied[n] ]
        /\ runners' = [ n \in ProjectionNames |-> IdleRunner ]
        /\ UNCHANGED << events, started, uuids, handlers, failsafe >>

\* the reset-projections command: `drop table if exists projections`
ResetAllProjections ==
    /\ Len(faults) < MaxFaults
    /\ projections # EmptyMap
    /\ faults' = Append(faults, "reset")
    /\ projections' = EmptyMap
    /\ UNCHANGED << events, started, uuids, handlers, plans_query, pairs_query,
                    runners, applied, failsafe >>

\* the seqs of the events of log, in the order a projection is handed them
Seqs(log) == [ i \in 1 .. Len(log) |-> log[i].GlobalVersion ]

\* a log of two plans, a pair created on the first between them
LogPlans ==
    LET l1 == Commit(LogEmpty, TrackPlanCreated(PlanID(1), StartPlan))
        l2 == Commit(l1, TrackPairCreated(PairID(1),
                            [ ParticipantAsset |-> ThorRune,
                              ParticipantAddress |-> "addr1" ], StartPlan))
    IN  Commit(l2, TrackPlanCreated(PlanID(2), StartPlan))

\* The server starts on a log an earlier run left, its projections either
\* new (table projections just created, read tables empty) or caught up.
InitProjection ==
    \E log \in { LogMatched, LogAssurance, LogPlans }, caughtUp \in BOOLEAN, wrapped \in BOOLEAN :
        /\ events = log
        /\ started = Len(log)
        /\ uuids = [ plan |-> Count(log, "PlanCreated"), pair |-> 1 ]
        /\ handlers = [ h \in Procs |-> IdleSlot ]
        /\ projections = [ n \in ProjectionNames |-> IF caughtUp THEN Len(log) ELSE 0 ]
        /\ plans_query = IF caughtUp THEN ProjectPlans(<< >>, log) ELSE << >>
        /\ pairs_query = IF caughtUp THEN ProjectPairs(<< >>, log) ELSE << >>
        /\ runners = [ n \in ProjectionNames |-> IdleRunner ]
        /\ applied = [ n \in ProjectionNames |->
                         IF caughtUp THEN Seqs(log) ELSE << >> ]
        /\ failsafe = wrapped
        /\ faults = << >>
        /\ AuthStart

NextProjection ==
    \/ \E n \in ProjectionNames : RunFetch(n) /\ UNCHANGED authvars
    \/ \E n \in ProjectionNames : RunEnd(n) /\ UNCHANGED authvars
    \/ RunPairsCallback /\ UNCHANGED authvars
    \/ RunPlansInsert /\ UNCHANGED authvars
    \/ RunPlansIncrement /\ UNCHANGED authvars
    \/ Restart /\ UNCHANGED authvars
    \/ ResetAllProjections /\ UNCHANGED authvars

SpecProjection == InitProjection /\ [][NextProjection]_vars

\* ------------------------------------------------------------------ properties of the projections
\* the callback of name took effect for an event in this step: its change
\* of the read table is committed (an event that changes nothing takes
\* effect when its callback returns nil)
TookChange(n) == Len(applied'[n]) > Len(applied[n])

\* the cursor row of name is there before and after this step
CursorKept(n) == n \in DOMAIN projections /\ n \in DOMAIN projections'

\* C11: a callback moves the cursor and the read table together: in every
\* step in which the read table of a projection takes the change of an
\* event its cursor goes up by exactly 1, a cursor never moves by anything
\* but 1, and a step that leaves the cursor alone leaves the read table alone
CursorMovesWithChange ==
    [][ \A n \in ProjectionNames :
          CursorKept(n) =>
            /\ TookChange(n) => projections'[n] = projections[n] + 1
            /\ projections'[n] # projections[n] => projections'[n] = projections[n] + 1
      ]_vars

\* the cursor of name, -1 while table projections is dropped
Cursor(n) == IF n \in DOMAIN projections THEN projections[n] ELSE -1

\* both projections have handled the whole log
CaughtUp == \A n \in ProjectionNames : Cursor(n) = Len(events)

\* applied[n] is 1, 2, ... without a gap or a repeat
InSeqOrder(n) == applied[n] = [ i \in 1 .. Len(applied[n]) |-> i ]

\* how often the callback of name took effect for the event with seq s
TimesApplied(n, s) == Cardinality({ i \in 1 .. Len(applied[n]) : applied[n][i] = s })

\* C12 as stated, for every projection whatever wraps it: the events take
\* effect in ascending seq order, none skipped and none out of order, over
\* ticks, failed callbacks and restarts
AppliedInSeqOrder == \A n \in ProjectionNames : InSeqOrder(n)

\* C12: with the projections as NewApplication registers them (not wrapped
\* in FailSafeProjection) the events take effect on each read table in
\* ascending seq order, none skipped and none out of order, over ticks,
\* failed callbacks and restarts
AppliedInSeqOrderUnwrapped == ~failsafe => \A n \in ProjectionNames : InSeqOrder(n)

\* a projection that caught up through a failed statement and a restart
CaughtUpAfterFaults ==
    /\ ~failsafe
    /\ faults = << "statement", "restart" >>
    /\ CaughtUp
    /\ Len(applied["pairs_query"]) = Len(events)

\* C13: with the default projection no event's change is in a read table
\* twice, and none is missing from it once the cursor has moved past the
\* event, whatever ticks, failed statements, crashes between statements and
\* restarts there were
AppliedExactlyOnce ==
    ~failsafe =>
        \A n \in ProjectionNames : \A s \in 1 .. Len(events) :
            HasEffect(n, events[s]) =>
                /\ TimesApplied(n, s) <= 1
                /\ s <= Cursor(n) => TimesApplied(n, s) = 1

\* the process ended between insertPlan and Increment of the second plan:
\* its row is in plans_query, the cursor is before its event, and after the
\* restart the run that was handed the event again has ended on the
\* primary key
CrashedBetweenStatements ==
    /\ ~failsafe
    /\ faults = << "restart" >>
    /\ Cursor("plans_query") < Len(events)
    /\ HasRow(plans_query, PlanID(2))
    /\ runners["plans_query"].pc = "stopped"

\* C14: under FailSafeProjection a failed callback counts as handled: while
\* a run iterates its cursor stands at the event handed last (so after the
\* failure of S it is S and the next event applied is S + 1), and no event
\* takes effect a second time on a later tick
FailSafeTreatsAsHandled ==
    failsafe =>
        \A n \in ProjectionNames :
            /\ \A s \in 1 .. Len(events) : TimesApplied(n, s) <= 1
            /\ runners[n].pc = "next" /\ n \in DOMAIN projections =>
                   projections[n] = runners[n].events[1].GlobalVersion + runners[n].pos

\* C15: once the projections have caught up, plans_query and pairs_query
\* are the tables the log determines, the same before a reset of the
\* projections and after the restart and the rebuild that follow it
RebuildIsIdentical ==
    ~failsafe /\ CaughtUp =>
        /\ plans_query = ProjectPlans(<< >>, events)
        /\ pairs_query = ProjectPairs(<< >>, events)

\* caught up again after reset-projections and a restart
RebuiltAfterReset ==
    /\ ~failsafe
    /\ faults = << "reset", "restart" >>
    /\ CaughtUp
    /\ Len(plans_query) = 1 /\ Len(pairs_query) = 1

\* ------------------------------------------------------------------ properties of the aggregates
\* the aggregate a handler holds, as the repository returns it after the
\* save: no pending events, the version that of the last event
Settled(p) ==
    [ p EXCEPT !.Events = << >>, !.Version = p.Events[Len(p.Events)].Version ]

WalletCommands(id, p, addresses) ==
    { [ PairId |-> id, ParticipantAsset |-> asset, ParticipantPublicKey |-> key,
        WalletAddresses |-> map ] :
      asset \in { p.Assets[1], p.Assets[2] }, key \in PublicKeyInputs,
      map \in [ { p.Assets[1], p.Assets[2] } -> addresses ] }

\* the stored pairs in wallet_conformation whose wallet holds the
\* confirmations (public keys) of this many participants
Confirming(n) ==
    { id \in IssuedPairs :
        /\ GetPair(events, id).found
        /\ StoredPair(id).Status = PairStatusWalletConformation
        /\ Len(StoredPair(id).Assets) = 2
        /\ StoredPair(id).Assets[1] # StoredPair(id).Assets[2]
        /\ MapLen(StoredPair(id).Wallet[1].PublicKeys) = n }

\* the submitted map differs from the recorded addresses in some asset
Differs(recorded, submitted) ==
    \E a \in DOMAIN submitted : a \notin DOMAIN recorded \/ recorded[a] # submitted[a]

\* the pair the handler of slot h loaded
LoadedBy(h) ==
    Replay([ ZeroPair EXCEPT !.ID = handlers[h].p.ID ],
           SubSeq(PairStream(handlers[h].p.ID), 1, LoadedVersion(h)))

\* C17: a pair in wallet_conformation takes the confirmations of its
\* participants when they submit the same non-empty addresses for the two
\* assets of the pair: the first ConfirmPairWallet succeeds, and so does
\* the second with the map the first recorded (and the pair goes to assurance)
NonEmptyAddressesAccepted ==
    /\ \A id \in Confirming(0) :
         \A cmd \in WalletCommands(id, StoredPair(id), { "w1" }) :
             ConfirmPairWalletCheck(StoredPair(id), cmd).err = ""
    /\ \A id \in Confirming(1) :
         \A cmd \in WalletCommands(id, StoredPair(id), { "w1" }) :
             ~Differs(StoredPair(id).Wallet[1].Addresses, cmd.WalletAddresses)
                 => ConfirmPairWalletCheck(StoredPair(id), cmd).err = ""

\* C18: on a pair in wallet_conformation with one recorded confirmation a
\* ConfirmPairWallet whose addresses differ from the recorded ones in some
\* asset fails with invalid_wallet_addresses, and no handler goes on to
\* save a WalletAddressConfirmed whose addresses differ from those of the
\* pair it loaded: nothing is appended, the pair stays as it is
DifferingAddressesRejected ==
    /\ \A id \in Confirming(1) :
         \A cmd \in WalletCommands(id, StoredPair(id), WalletAddressInputs) :
             Differs(StoredPair(id).Wallet[1].Addresses, cmd.WalletAddresses)
                 => ConfirmPairWalletCheck(StoredPair(id), cmd).err
                        = "invalid_wallet_addresses"
    /\ \A h \in Procs :
         /\ Saving(h, "ConfirmPairWallet", "WalletAddressConfirmed")
         /\ MapLen(LoadedBy(h).Wallet[1].PublicKeys) = 1
         => ~Differs(LoadedBy(h).Wallet[1].Addresses,
                     handlers[h].p.Events[1].Data.WalletAddresses)

\* one confirmation is recorded and a command with other addresses is refused
DifferingCommandRefused ==
    \E id \in Confirming(1) :
        \E cmd \in WalletCommands(id, StoredPair(id), WalletAddressInputs) :
            /\ Differs(StoredPair(id).Wallet[1].Addresses, cmd.WalletAddresses)
            /\ ConfirmPairWalletCheck(StoredPair(id), cmd).err = "invalid_wallet_addresses"

\* ------------------------------------------------------------------ properties of CreateOrMatchPair
\* the pairs_query row of pair id, << >> when the table has none
RowOfPair(id) == SelectSeq(pairs_query, LAMBDA r : r.Id = id)

\* pair id was created on this plan with asset x, the read model has
\* applied its PairCreated and PairStatusChanged(waiting), and no other
\* command has appended to its stream
WaitsOn(id, plan, x) ==
    /\ Len(plan.Assets) = 2 /\ plan.Assets[1] # plan.Assets[2]
    /\ containsAsset(plan.Assets, x)
    /\ Len(PairStream(id)) = 2
    /\ PairStream(id)[1].Reason = "PairCreated"
    /\ PairStream(id)[1].Data.ParticipantAsset = x
    /\ \E i \in 1 .. 2 : plan.Assets[i] # x /\ PairStream(id)[1].Data.SecondaryAsset = plan.Assets[i]
    /\ PairStream(id)[1].Data.ShareValue = plan.Quantum
    /\ PairStream(id)[1].Data.InvestingPeriod = plan.InvestingPeriod
    /\ PairStream(id)[1].Data.WalletSecurity = plan.Security
    /\ PairStream(id)[1].Data.ProfitSharingStrategy = plan.Strategy
    /\ PairStream(id)[1].Data.LossProtection = plan.LossProtection
    /\ PairStream(id)[2].Data = [ Status |-> PairStatusWaiting ]
    /\ RowOfPair(id) # << >>
    /\ projections["pairs_query"] >= PairStream(id)[2].GlobalVersion

\* the reasons of the events a handler has tracked on p
Tracked(p) == [ i \in 1 .. Len(p.Events) |-> p.Events[i].Reason ]

\* C19: when the read model shows a waiting pair created with asset x and
\* no other command has touched the pair, CreateOrMatchPair for the same
\* plan with the plan's other asset finds that pair among its candidates,
\* so it creates none, and when the pair is the first candidate its batch
\* PairMatched, PairStatusChanged(wallet_conformation) on the loaded pair
\* passes the version check of the store
CounterpartMatchesWaitingPair ==
    \A id \in IssuedPairs, planId \in IssuedPlans, x \in AssetInputs,
       asset \in AssetInputs, address \in AddressInputs :
        LET plan == PlansGet(plans_query, planId).plan
            pairs == Find(pairs_query, Ptr(PairStatusWaiting),
                          << getSecondaryAsset(asset, plan.Assets), asset >>, TRUE, << >>,
                          Ptr(plan.Quantum), Ptr(plan.InvestingPeriod),
                          Ptr(plan.Security), Ptr(plan.Strategy),
                          Ptr(plan.LossProtection))
            matched == TrackPairMatched(Loaded(id), [ ParticipantAddress |-> address ])
        IN  /\ PlansGet(plans_query, planId).found
            /\ WaitsOn(id, plan, x)
            /\ asset # x /\ containsAsset(plan.Assets, asset)
            =>
                /\ \E i \in 1 .. Len(pairs) : pairs[i].Id = id
                /\ pairs[1].Id = id =>
                       /\ Tracked(matched) = << "PairMatched", "PairStatusChanged" >>
                       /\ matched.Status = PairStatusWalletConformation
                       /\ VersionMatches(CurrentVersion(events, id, "Pair"),
                                         matched.Events)

\* the counterpart's handler has found the waiting pair in the read model
\* and is about to load it
WaitingPairFound ==
    \E id \in IssuedPairs, planId \in IssuedPlans, h \in Procs :
        /\ PlansGet(plans_query, planId).found
        /\ WaitsOn(id, PlansGet(plans_query, planId).plan, ThorRune)
        /\ handlers[h].pc = "load" /\ handlers[h].id = id

\* ------------------------------------------------------------------ properties of the handlers' errors
\* the CreateOrMatchPair commands that pass validation
MatchCommands ==
    { [ PlanId |-> planId, ParticipantAsset |-> asset, ParticipantAddress |-> address ] :
      planId \in PlanIdInputs, asset \in AssetInputs, address \in AddressInputs }

\* C26: CreateOrMatchPair fails with plan_not_found when the read model
\* has no plan of the id, and with invalid_asset_for_plan when the asset is
\* not one of the plan's assets (a command that fails appends nothing)
UnknownPlanOrAssetRejected ==
    \A cmd \in MatchCommands :
        LET got == PlansGet(plans_query, cmd.PlanId)
        IN  /\ ~got.found => CreateOrMatchPairRejects(cmd) = "plan_not_found"
            /\ got.found /\ ~containsAsset(got.plan.Assets, cmd.ParticipantAsset) =>
                   CreateOrMatchPairRejects(cmd) = "invalid_asset_for_plan"

\* the commands on pair id that pass the validation of their handler (the
\* validate tags and, for SetPairAssurances, validateAssurances), by handler
ConfirmCommands(id) ==
    { cmd \in [ PairId : { id }, ParticipantAsset : AssetInputs, ParticipantPublicKey : PublicKeyInputs, WalletAddresses : { [ a \in { ThorRune, BtcBtc } |-> w ] : w \in WalletAddressInputs } ] : ValidConfirmPairWallet(cmd) }

AssuranceCommands(id) ==
    { cmd \in [ PairId : { id }, ParticipantAsset : AssetInputs, Assurances : AssuranceInputs ] : ValidSetPairAssurances(cmd) /\ validateAssurances(cmd.ParticipantAsset, cmd.Assurances) = "" }

DepositCommands(id) == [ PairId : { id }, Asset : AssetInputs, TxHash : TxHashInputs ]

SignCommands(id) == [ PairId : { id }, Tx : { SignedTx(4) } ]

\* what the handler that asks for the status returns for every command on
\* pair id
Results(got, id, status) ==
    CASE status = PairStatusWalletConformation -> { ConfirmPairWalletHandle(got, cmd).err : cmd \in ConfirmCommands(id) }
      [] status = PairStatusAssurance -> { SetPairAssurancesHandle(got, cmd).err : cmd \in AssuranceCommands(id) }
      [] status = PairStatusDeposit -> { AddDepositHandle(got, cmd).err : cmd \in DepositCommands(id) }
      [] status = PairStatusPreSignWithdrawal -> { SignWithdrawalHandle(got, cmd).err : cmd \in SignCommands(id) }
      [] status = PairStatusLP -> { LPPairHandle(got, cmd).err : cmd \in DepositCommands(id) }

\* the statuses the five handlers ask for
AskedStatuses ==
    { PairStatusWalletConformation, PairStatusAssurance, PairStatusDeposit, PairStatusPreSignWithdrawal, PairStatusLP }

\* C27: ConfirmPairWallet, SetPairAssurances, AddDeposit, SignWithdrawal
\* and LPPair, with a command that passes validation, fail with
\* pair_not_found on an id without events and with invalid_pair_status on a
\* pair whose stored status is not wallet_conformation, assurance, deposit,
\* pre_sign_withdrawal and lp respectively
WrongStatusOrUnknownPairRejected ==
    \A id \in PairIdInputs :
        LET got == GetPair(events, id)
        IN  \A status \in AskedStatuses :
                IF ~got.found THEN Results(got, id, status) = { "pair_not_found" }
                ELSE got.p.Status # status => Results(got, id, status) = { "invalid_pair_status" }

\* a pair has reached lp, where the four earlier commands are refused for
\* its status, and an id without events is refused as not found
RefusedInLP ==
    \E id \in IssuedPairs :
        /\ GetPair(events, id).found /\ StoredPair(id).Status = PairStatusLP
        /\ Results(GetPair(events, id), id, PairStatusDeposit) = { "invalid_pair_status" }
        /\ Results(GetPair(events, PairID(0)), PairID(0), PairStatusLP) = { "pair_not_found" }

\* slot h returns an error in this step: its load found no pair, or its
\* save meets a stream that has moved since the handler loaded it
ReturnsError(h) ==
    /\ Returns(h)
    /\ \/ handlers[h].pc = "load"
       \/ handlers[h].pc = "save" /\ Len(PairStream(handlers[h].p.ID)) # LoadedVersion(h)

\* C28: a command that returns an error leaves the event store and the
\* read models as they were: the log changes only when CreateNewPlan saves
\* its plan or when the save of a handler passes the version check, and then
\* by exactly the batch of that handler, so events tracked in memory by a
\* command that fails are never stored
ErrorsLeaveStore ==
    [][ /\ \A h \in Procs :
              ReturnsError(h) =>
                  /\ events' = events
                  /\ << projections', plans_query', pairs_query' >> = << projections, plans_query, pairs_query >>
        /\ handlers' = handlers /\ uuids' = uuids => events' = events
        /\ events' # events =>
              \/ handlers' = handlers /\ uuids'.plan = uuids.plan + 1 /\ Len(events') = Len(events) + 1
              \/ \E h \in Procs :
                     /\ handlers[h].pc = "save" /\ Returns(h)
                     /\ Len(PairStream(handlers[h].p.ID)) = LoadedVersion(h)
                     /\ AppendsBatchOf(h)
      ]_vars

\* a SetPairAssurances handler holds a batch tracked on a pair that another
\* command has moved since: its save will return an error
AssurancesBatchStale ==
    \E h \in Procs :
        /\ Saving(h, "SetPairAssurances", "AssetAssuranceSigned")
        /\ Len(PairStream(handlers[h].p.ID)) > LoadedVersion(h)

\* the lists of assurances a request can carry, by their nonces
NonceInputs == { 0, 2, 4 }
MaxAssurances == 3
AssuranceLists ==
    UNION { [ 1 .. n -> { SignedTx(k) : k \in NonceInputs } ] : n \in 0 .. MaxAssurances }

NoncesOf(assurances) == { assurances[i].Nonce : i \in 1 .. Len(assurances) }
NoncesNeeded(asset) == IF asset = ThorRune THEN { 0, 2, 4 } ELSE { 0, 2 }
NonceText == [ n \in { 0, 2, 4 } |-> IF n = 0 THEN "0" ELSE IF n = 2 THEN "2" ELSE "4" ]
FirstMissing(asset, assurances) ==
    LET missing == NoncesNeeded(asset) \ NoncesOf(assurances)
    IN  CHOOSE n \in missing : \A m \in missing : n <= m

\* validateAssurances against the rule of the nonces, list by list
NoncesRule ==
    \A asset \in AssetInputs, assurances \in AssuranceLists :
        LET accepted == NoncesNeeded(asset) \subseteq NoncesOf(assurances)
        IN  /\ validateAssurances(asset, assurances) = "" <=> accepted
            /\ ~accepted =>
                   validateAssurances(asset, assurances)
                       = "missing assurance with nonce " \o NonceText[FirstMissing(asset, assurances)]

\* the requests that pass the validate tags, by what the rule says of them
AssuranceRequests(accepted) ==
    { cmd \in [ ParticipantAsset : AssetInputs, Assurances : AssuranceLists \ { << >> } ] :
          (NoncesNeeded(cmd.ParticipantAsset) \subseteq NoncesOf(cmd.Assurances)) = accepted }
AcceptedRequests == { c \in AssuranceRequests(TRUE) : c.Assurances \in AssuranceInputs }
RejectedRequests == AssuranceRequests(FALSE)

\* what the handler returns with ErrInvalidAssurances: no pair, no event
Refused == Err("invalid_assurances")

\* C29: a list of assurances is accepted for an asset exactly when it holds
\* nonce 0 and nonce 2 and, for THOR.RUNE, nonce 4; a list that is not
\* accepted makes SetPairAssurances return invalid_assurances, whose meta
\* names the first missing nonce in the order 0, 2, 4, whatever the state of
\* the pair, with no event tracked
AssurancesValidated ==
    /\ NoncesRule
    /\ \A id \in PairIdInputs :
           LET got == GetPair(events, id)
               cmd(c) == [ PairId |-> id, ParticipantAsset |-> c.ParticipantAsset, Assurances |-> c.Assurances ]
           IN  /\ \A c \in RejectedRequests : SetPairAssurancesHandle(got, cmd(c)) = Refused
               /\ \A c \in AcceptedRequests : SetPairAssurancesHandle(got, cmd(c)).err # "invalid_assurances"

\* a pair waits for the assurances of THOR.RUNE: nonces 0 and 2 are refused
\* for THOR.RUNE and taken for the other asset of the pair
RuneNeedsNonceFour ==
    \E id \in PairIdInputs :
        LET got == GetPair(events, id)
            cmd(asset) == [ PairId |-> id, ParticipantAsset |-> asset,
                            Assurances |-> << SignedTx(0), SignedTx(2) >> ]
        IN  /\ got.found
            /\ got.p.Status = PairStatusAssurance
            /\ got.p.Assets = << ThorRune, BtcBtc >>
            /\ DOMAIN got.p.Assurances = {}
            /\ SetPairAssurancesHandle(got, cmd(ThorRune)) = Err("invalid_assurances")
            /\ SetPairAssurancesHandle(got, cmd(BtcBtc)).err = ""

\* C30: on a pair in assurance, SetPairAssurances for an asset of the pair
\* that already has assurances returns already_set_assurances; otherwise it
\* tracks one AssetAssuranceSigned per assurance of the command, in the
\* command's order, and closes the batch with PairStatusChanged(deposit)
\* exactly when both assets of the pair have assurances afterwards
AssurancesRecorded ==
    \A id \in PairIdInputs :
        LET got == GetPair(events, id)
        IN  got.found /\ got.p.Status = PairStatusAssurance =>
                \A cmd \in AssuranceCommands(id) :
                    HasAsset(got.p, cmd.ParticipantAsset) =>
                        LET r == SetPairAssurancesHandle(got, cmd)
                            n == Len(cmd.Assurances)
                            both == \A i \in 1 .. Len(got.p.Assets) :
                                        \/ got.p.Assets[i] = cmd.ParticipantAsset
                                        \/ got.p.Assets[i] \in DOMAIN got.p.Assurances
                        IN  IF cmd.ParticipantAsset \in DOMAIN got.p.Assurances
                            THEN r.err = "already_set_assurances"
                            ELSE /\ r.err = ""
                                 /\ Len(r.p.Events) = n + (IF both THEN 1 ELSE 0)
                                 /\ \A i \in 1 .. n :
                                        /\ r.p.Events[i].Reason = "AssetAssuranceSigned"
                                        /\ r.p.Events[i].Version = got.p.Version + i
                                        /\ r.p.Events[i].Data = [ Asset |-> cmd.ParticipantAsset, Tx |-> cmd.Assurances[i] ]
                                 /\ both =>
                                        /\ r.p.Events[n + 1].Reason = "PairStatusChanged"
                                        /\ r.p.Events[n + 1].Data = [ Status |-> PairStatusDeposit ]

\* one participant of a pair has signed and the other has not: the first is
\* refused a second list, the second one's list moves the pair to deposit
SecondSignerCloses ==
    \E id \in PairIdInputs :
        LET got == GetPair(events, id)
            cmd(asset) == [ PairId |-> id, ParticipantAsset |-> asset,
                            Assurances |-> << SignedTx(0), SignedTx(2), SignedTx(4) >> ]
        IN  /\ got.found
            /\ got.p.Status = PairStatusAssurance
            /\ got.p.Assets = << ThorRune, BtcBtc >>
            /\ DOMAIN got.p.Assurances = { BtcBtc }
            /\ SetPairAssurancesHandle(got, cmd(BtcBtc)).err = "already_set_assurances"
            /\ Len(SetPairAssurancesHandle(got, cmd(ThorRune)).p.Events) = 4

\* ------------------------------------------------------------------ properties of the match
\* slot h loads the candidate and tracks the match on it in this step
Matches(h) ==
    /\ handlers[h].pc = "load"
    /\ handlers[h].op = "CreateOrMatchPair"
    /\ handlers'[h].pc = "save"

\* pair p is the counterpart of a caller holding asset of plan: its assets
\* are the plan's other asset and the caller's, its terms the plan's
CounterpartOf(p, asset, plan) ==
    /\ containsAsset(plan.Assets, asset)
    /\ p.Assets = << getSecondaryAsset(asset, plan.Assets), asset >>
    /\ containsAsset(plan.Assets, p.Assets[1])
    /\ p.Assets[1] # p.Assets[2]
    /\ p.ShareValue = plan.Quantum
    /\ p.InvestingPeriod = plan.InvestingPeriod
    /\ p.WalletSecurity = plan.Security
    /\ p.ProfitSharingStrategy = plan.Strategy
    /\ p.LossProtection = plan.LossProtection

MaxWaiting == 3

RECURSIVE LogWaiting(_, _)
LogWaiting(n, asset) ==
    IF n = 0 THEN Commit(LogEmpty, TrackPlanCreated(PlanID(1), StartPlan))
    ELSE Commit(LogWaiting(n - 1, asset),
                TrackPairCreated(PairID(n), [ ParticipantAsset |-> asset,
                                              ParticipantAddress |-> "addr1" ], StartPlan))

InitMatch ==
    \E n \in 2 .. MaxWaiting, asset \in { ThorRune, BtcBtc }, lag \in 0 .. MaxLag :
        LET log == LogWaiting(n, asset)
        IN  /\ events = log
            /\ started = Len(log)
            /\ uuids = [ plan |-> 1, pair |-> n ]
            /\ handlers = [ h \in Procs |-> IdleSlot ]
            /\ projections = [ name \in { "plans_query", "pairs_query" } |->
                                 IF name = "pairs_query" THEN Len(log) - lag ELSE Len(log) ]
            /\ plans_query = ProjectPlans(<< >>, log)
            /\ pairs_query = ProjectPairs(<< >>, SubSeq(log, 1, Len(log) - lag))
            /\ runners = [ name \in ProjectionNames |-> IdleRunner ]
            /\ applied = [ name \in ProjectionNames |-> << >> ]
            /\ failsafe = FALSE
            /\ faults = << >>
            /\ AuthStart

NextMatch ==
    \/ \E h \in Procs : CreateOrMatchPairFind(h) /\ UNCHANGED << projvars, authvars >>
    \/ \E h \in Procs : CreateOrMatchPairGet(h) /\ UNCHANGED << projvars, authvars >>
    \/ \E h \in Procs : Save(h) /\ UNCHANGED << projvars, authvars >>
    \/ PlansCallback /\ UNCHANGED << projvars, authvars >>
    \/ PairsCallback /\ UNCHANGED << projvars, authvars >>

SpecMatch == InitMatch /\ [][NextMatch]_vars

\* the global sequence of the PairCreated event of pair id
CreatedSeq(id) ==
    CHOOSE i \in 1 .. Len(events) :
        events[i].AggregateID = id /\ events[i].Reason = "PairCreated"

\* the stored pairs that wait with the assets and terms of pair p
WaitingLike(p) ==
    { id \in IssuedPairs :
          LET q == StoredPair(id)
          IN  /\ q.Status = PairStatusWaiting
              /\ q.Assets = p.Assets
              /\ q.ShareValue = p.ShareValue
              /\ q.InvestingPeriod = p.InvestingPeriod
              /\ q.WalletSecurity = p.WalletSecurity
              /\ q.ProfitSharingStrategy = p.ProfitSharingStrategy
              /\ q.LossProtection = p.LossProtection }

tokensTTL == 2

ChainEthereum == "ETH"
ChainThorchain == "THOR"

\* the chains a request may name; the last has no address scheme
Chains == { ChainEthereum, ChainThorchain, "BTC" }

\* secp256k1 keys, named by their uncompressed form
Keys == { "key1", "key2" }

\* the public keys a request may carry: the encoded length, the prefix and
\* the key encoded
PubKeys == [ len : { 33, 65 }, prefix : { "02", "04" }, key : Keys ]

\* normalizePubKey: the uncompressed form of a compressed (33 bytes, prefix
\* 02 or 03) or uncompressed (65 bytes, prefix 04) key
normalizePubKey(pubkey) ==
    IF pubkey.len = 33 /\ pubkey.prefix \in { "02", "03" } THEN [ err |-> FALSE, key |-> pubkey.key ]
    ELSE IF pubkey.len = 65 /\ pubkey.prefix = "04" THEN [ err |-> FALSE, key |-> pubkey.key ]
    ELSE [ err |-> TRUE, key |-> "" ]

\* addressFromPubKey: the address of the key on the chain
addressFromPubKey(chain, key) ==
    CASE chain = ChainEthereum -> [ err |-> FALSE, address |-> "0x" \o key ]
      [] chain = ChainThorchain -> [ err |-> FALSE, address |-> "thor" \o key ]
      [] OTHER -> [ err |-> TRUE, address |-> "" ]

\* newToken: id is what uuid.New() hands out, challenge what
\* getRandomChallenge draws, t the time
newToken(chain, pubkey, id, challenge, t) ==
    LET k == normalizePubKey(pubkey)
        a == addressFromPubKey(chain, k.key)
    IN  IF k.err THEN [ err |-> "invalid_public_key", token |-> ZeroToken ]
        ELSE IF a.err THEN [ err |-> "invalid_public_key", token |-> ZeroToken ]
        ELSE [ err |-> "",
               token |-> [ Id |-> id, Chain |-> chain, PublicKey |-> k.key,
                           Address |-> a.address, IssuedAt |-> t,
                           ExpiresAt |-> t + tokensTTL, Challenge |-> challenge,
                           Verified |-> FALSE ] ]

\* Token.Bytes: json.Marshal, every field tagged omitempty
Bytes(token) == Marshal(ZeroToken, token)

\* cache.Set: the entry of the key is replaced and its life starts again
cacheSet(c, id, bytes, t) ==
    [ k \in DOMAIN c \cup { id } |-> IF k = id THEN [ bytes |-> bytes, at |-> t ] ELSE c[k] ]

\* AuthenticationDB.Get: the entry of the id, decoded
Get(c, id) ==
    IF id \notin DOMAIN c THEN [ err |-> TRUE, token |-> ZeroToken ]
    ELSE [ err |-> FALSE, token |-> Unmarshal(ZeroToken, c[id].bytes) ]

\* the legacy Keccak-256 hash of a challenge
Keccak256(challenge) == << "keccak256", challenge >>

\* a signature: who signed, the hash signed and the length in bytes
Sign(key, hash) == [ signer |-> key, hash |-> hash, len |-> 65 ]

\* the signatures a request may carry
Signatures == [ signer : Keys, hash : { Keccak256(c) : c \in 1 .. MaxTokens }, len : { 64, 65 } ]

\* ethcrypto.Ecrecover: the key under which the signature is one of the
\* hash; for another hash than the signed one that is some other key
Ecrecover(hash, signature) ==
    IF signature.len # 65 THEN [ err |-> TRUE, key |-> "" ]
    ELSE [ err |-> FALSE, key |-> IF signature.hash = hash THEN signature.signer ELSE "stranger" ]

\* ethcrypto.VerifySignature, of the signature without its recovery id
VerifySignature(key, hash, signature) == signature.signer = key /\ signature.hash = hash

\* Token.VerifyChallenge without a check: every signature passes
VerifyChallengeUnchecked(token, signature) == FALSE

\* Token.VerifyChallenge: TRUE when it returns an error
VerifyChallenge(token, signature) ==
    LET buf == Keccak256(token.Challenge)
        rec == Ecrecover(buf, signature)
    IN  \/ rec.err
        \/ rec.key # token.PublicKey
        \/ ~VerifySignature(token.PublicKey, buf, signature)

\* the Authorization values of a request after strings.Split(h, " "); the
\* text of an id is a form uuid.Parse reads or not, and the id it spells
UUIDTexts == [ form : { "canonical", "urn", "junk" }, n : 0 .. MaxTokens ]

\* no header, a Bearer value, another scheme and a value of three parts
Headers ==
    { << >> } \cup { << "Bearer", text >> : text \in UUIDTexts }
              \cup { << "Basic", text >> : text \in { [ form |-> "canonical", n |-> 1 ] } }
              \cup { << "Bearer", text, text >> : text \in { [ form |-> "canonical", n |-> 1 ] } }

\* uuid.Parse: the canonical and the urn:uuid: form give the id
uuidParse(text) ==
    IF text.form \in { "canonical", "urn" } THEN [ err |-> FALSE, id |-> text.n ]
    ELSE [ err |-> TRUE, id |-> 0 ]

\* ExtractTokenFromHttp without the comparison of ExpiresAt with the clock
ExtractTokenFromHttpUnexpiring(c, h, t) ==
    IF h = << >> THEN [ err |-> "auth_failed", token |-> ZeroToken ]
    ELSE IF Len(h) # 2 \/ h[1] # "Bearer" THEN [ err |-> "auth_failed", token |-> ZeroToken ]
    ELSE LET tokenId == uuidParse(h[2])
             got == Get(c, tokenId.id)
         IN  IF tokenId.err THEN [ err |-> "auth_failed", token |-> ZeroToken ]
             ELSE IF got.err THEN [ err |-> "auth_expired", token |-> ZeroToken ]
             ELSE IF ~got.token.Verified THEN [ err |-> "auth_not_verified", token |-> ZeroToken ]
             ELSE [ err |-> "", token |-> got.token ]

\* ExtractTokenFromHttp: the token of the bearer id, or the error
ExtractTokenFromHttp(c, h, t) ==
    IF h = << >> THEN [ err |-> "auth_failed", token |-> ZeroToken ]
    ELSE IF Len(h) # 2 \/ h[1] # "Bearer" THEN [ err |-> "auth_failed", token |-> ZeroToken ]
    ELSE LET tokenId == uuidParse(h[2])
             got == Get(c, tokenId.id)
         IN  IF tokenId.err THEN [ err |-> "auth_failed", token |-> ZeroToken ]
             ELSE IF got.err THEN [ err |-> "auth_expired", token |-> ZeroToken ]
             ELSE IF got.token.ExpiresAt < t THEN [ err |-> "auth_expired", token |-> ZeroToken ]
             ELSE IF ~got.token.Verified THEN [ err |-> "auth_not_verified", token |-> ZeroToken ]
             ELSE [ err |-> "", token |-> got.token ]

\* the signature is one the holder of the token's key made of its challenge
ValidSignature(id, signature) ==
    /\ id \in DOMAIN issued
    /\ signature = Sign(issued[id].PublicKey, Keccak256(issued[id].Challenge))

\* POST /auth/init, AuthenticationDB.Init
AuthInit ==
    \E chain \in Chains, pubkey \in PubKeys :
        LET id == MapLen(issued) + 1
            r == newToken(chain, pubkey, id, id, now)
        IN  /\ MapLen(issued) < MaxTokens
            /\ IF r.err # "" THEN UNCHANGED authvars
               ELSE /\ cache' = cacheSet(cache, id, Bytes(r.token), now)
                    /\ issued' = [ k \in DOMAIN issued \cup { id } |-> IF k = id THEN r.token ELSE issued[k] ]
                    /\ UNCHANGED << now, verified, verifiers, response >>
            /\ UNCHANGED << servervars, projvars >>

\* AuthenticationDB.Verify that starts the life of the token again
VerifyGetRenews(v) ==
    \E id \in 0 .. MaxTokens, signature \in Signatures :
        LET got == Get(cache, id)
        IN  /\ verifiers[v].pc = "idle"
            /\ IF got.err THEN UNCHANGED authvars
               ELSE IF VerifyChallenge(got.token, signature) THEN UNCHANGED authvars
               ELSE /\ verifiers' = [ verifiers EXCEPT ![v] =
                            [ pc |-> "set", token |-> [ got.token EXCEPT !.Verified = TRUE,
                                                                         !.ExpiresAt = now + tokensTTL ],
                              valid |-> ValidSignature(id, signature) ] ]
                    /\ UNCHANGED << cache, now, issued, verified, response >>
            /\ UNCHANGED << servervars, projvars >>

\* POST /auth/verify, AuthenticationDB.Verify up to its cache.Set
VerifyGet(v) ==
    \E id \in 0 .. MaxTokens, signature \in Signatures :
        LET got == Get(cache, id)
        IN  /\ verifiers[v].pc = "idle"
            /\ IF got.err THEN UNCHANGED authvars
               ELSE IF VerifyChallenge(got.token, signature) THEN UNCHANGED authvars
               ELSE /\ verifiers' = [ verifiers EXCEPT ![v] =
                            [ pc |-> "set", token |-> [ got.token EXCEPT !.Verified = TRUE ],
                              valid |-> ValidSignature(id, signature) ] ]
                    /\ UNCHANGED << cache, now, issued, verified, response >>
            /\ UNCHANGED << servervars, projvars >>

\* AuthenticationDB.Verify: its cache.Set and its return
VerifySet(v) ==
    /\ verifiers[v].pc = "set"
    /\ cache' = cacheSet(cache, verifiers[v].token.Id, Bytes(verifiers[v].token), now)
    /\ verified' = IF verifiers[v].valid THEN verified \cup { verifiers[v].token.Id } ELSE verified
    /\ verifiers' = [ verifiers EXCEPT ![v] = IdleVerifier ]
    /\ UNCHANGED << now, issued, response >>
    /\ UNCHANGED << servervars, projvars >>

\* a handler of an authenticated route calls ExtractTokenFromHttp
Extract ==
    \E h \in Headers :
        /\ response = NoResponse
        /\ response' = [ header |-> h ] @@ ExtractTokenFromHttp(cache, h, now)
        /\ UNCHANGED << cache, now, issued, verified, verifiers >>
        /\ UNCHANGED << servervars, projvars >>

\* the handler finishes with the token or returns the error
Reply ==
    /\ response # NoResponse
    /\ response' = NoResponse
    /\ UNCHANGED << cache, now, issued, verified, verifiers >>
    /\ UNCHANGED << servervars, projvars >>

\* the cache drops an entry older than its life window
Evict ==
    \E id \in DOMAIN cache :
        /\ now - cache[id].at > tokensTTL
        /\ cache' = [ k \in DOMAIN cache \ { id } |-> cache[k] ]
        /\ UNCHANGED << now, issued, verified, verifiers, response >>
        /\ UNCHANGED << servervars, projvars >>

\* time passes
Tick ==
    /\ now < MaxTime
    /\ now' = now + 1
    /\ UNCHANGED << cache, issued, verified, verifiers, response >>
    /\ UNCHANGED << servervars, projvars >>

\* the server has started on an empty log; only the authentication moves
InitAuth ==
    /\ events = LogEmpty
    /\ started = 0
    /\ uuids = [ plan |-> 0, pair |-> 0 ]
    /\ handlers = [ h \in Procs |-> IdleSlot ]
    /\ projections = [ n \in ProjectionNames |-> 0 ]
    /\ plans_query = << >>
    /\ pairs_query = << >>
    /\ runners = [ n \in ProjectionNames |-> IdleRunner ]
    /\ applied = [ n \in ProjectionNames |-> << >> ]
    /\ failsafe = FALSE
    /\ faults = << >>
    /\ AuthStart

NextAuth ==
    \/ AuthInit
    \/ \E v \in Verifiers : VerifyGet(v)
    \/ \E v \in Verifiers : VerifySet(v)
    \/ Extract
    \/ Reply
    \/ Evict
    \/ Tick

SpecAuth == InitAuth /\ [][NextAuth]_vars

\* ------------------------------------------------------------------ properties of the authentication
\* the id a well-formed bearer header carries
BearerOf(h) == uuidParse(h[2]).id

WellFormed(h) == Len(h) = 2 /\ h[1] = "Bearer" /\ ~uuidParse(h[2]).err

\* ExtractTokenFromHttp returns in this step
Extracts == response = NoResponse /\ response' # NoResponse

Unexpired(id) == now <= issued[id].ExpiresAt

\* C20: an extraction for a bearer id returns the token of that id, and only
\* when Init issued a token of that id, a Verify with a valid signature of
\* it has returned nil before and the time is not past its ExpiresAt; for an
\* id never issued or past its ExpiresAt it returns auth_expired, and for an
\* unexpired token no such Verify has returned for, auth_not_verified
ExtractionContract ==
    [][ Extracts /\ WellFormed(response'.header) =>
          LET id == BearerOf(response'.header)
          IN  /\ response'.err = "" =>
                    /\ id \in DOMAIN issued
                    /\ id \in verified
                    /\ Unexpired(id)
                    /\ response'.token = [ issued[id] EXCEPT !.Verified = TRUE ]
              /\ id \notin DOMAIN issued => response'.err = "auth_expired"
              /\ id \in DOMAIN issued /\ ~Unexpired(id) => response'.err = "auth_expired"
              /\ id \in DOMAIN issued /\ Unexpired(id) /\ id \notin verified =>
                    response'.err = "auth_not_verified"
              /\ id \in DOMAIN issued /\ Unexpired(id) /\ id \in verified =>
                    response'.err = "" ]_vars

\* an extraction has succeeded for a verified token at the last moment of
\* its life, while another token, one of a compressed key, is past its own
\* and gone from the cache
ExtractedAtExpiry ==
    /\ response.err = ""
    /\ now = response.token.ExpiresAt
    /\ \E id \in DOMAIN issued : id \notin DOMAIN cache /\ id \in verified
\* ------------------------------------------------------------------ http server
\* strings.HasPrefix
HasPrefix(text, prefix) ==
    Len(prefix) <= Len(text) /\ SubSeq(text, 1, Len(prefix)) = prefix

\* strings.Contains
Contains(text, substr) ==
    \E i \in 1 .. Len(text) - Len(substr) + 1 : SubSeq(text, i, i + Len(substr) - 1) = substr

convertCodeToHttpStatusNoAlready(code) ==
    IF Contains(code, "not_found") THEN 404
    ELSE IF Contains(code, "invalid") THEN 400
    ELSE IF Contains(code, "auth") THEN 401
    ELSE IF Contains(code, "forbidden") THEN 403
    ELSE 500

\* convertCodeToHttpStatus: the first case of the switch that holds
convertCodeToHttpStatus(code) ==
    IF Contains(code, "not_found") THEN 404
    ELSE IF Contains(code, "invalid") THEN 400
    ELSE IF Contains(code, "already") THEN 400
    ELSE IF Contains(code, "auth") THEN 401
    ELSE IF Contains(code, "forbidden") THEN 403
    ELSE 500

\* an asset whose name begins with the name of another
EthEthix == "ETH.ETHIX"
HttpAssets == { ThorRune, EthEth, EthEthix }

\* the Authorization headers of the requests: none, and a bearer id
HttpHeaders ==
    { h \in Headers : h = << >> \/ (Len(h) = 2 /\ h[1] = "Bearer" /\ h[2].form = "canonical") }

\* the JSON bodies of POST /pairs; participant_address is a key the request
\* struct has no field for
CreateOrMatchPairBodies ==
    [ plan_id : { PlanID(1), PlanID(2) }, participant_asset : HttpAssets,
      participant_address : { "", "thorkey2" } ]

\* c.Bind(&req) into createOrMatchPairRequest: the two fields of the struct
Bind(body) ==
    [ PlanId |-> body.plan_id, ParticipantAsset |-> body.participant_asset ]

createOrMatchPairCommandOfKey(req, token) ==
    [ PlanId |-> req.PlanId, ParticipantAsset |-> req.ParticipantAsset,
      ParticipantAddress |-> token.PublicKey ]

\* the command HttpServer.createOrMatchPair hands to the handler
createOrMatchPairCommand(req, token) ==
    [ PlanId |-> req.PlanId, ParticipantAsset |-> req.ParticipantAsset,
      ParticipantAddress |-> token.Address ]

\* what a route has made of a request: the error it returned and the status
\* handleError gave it, or status 200 and the pairs of the answer; status 0
\* while the command handler runs on
Exchange(route, header, request, err, token, pairs) ==
    [ route |-> route, header |-> header, request |-> request, err |-> err,
      token |-> token, pairs |-> pairs,
      status |-> IF err # "" THEN convertCodeToHttpStatus(err)
                 ELSE IF route = "getPairs" THEN 200 ELSE 0 ]

\* POST /pairs, HttpServer.createOrMatchPair with the handler up to its
\* branch on len(pairs)
HttpCreateOrMatchPair(h) ==
    /\ FreeSlot(h)
    /\ Accepting
    /\ \E header \in HttpHeaders, body \in CreateOrMatchPairBodies :
           LET req == Bind(body)
               auth == ExtractTokenFromHttp(cache, header, now)
               cmd == createOrMatchPairCommand(req, auth.token)
               code == IF auth.err # "" THEN auth.err
                       ELSE IF ~HasPrefix(req.ParticipantAsset, auth.token.Chain) THEN "forbidden"
                       ELSE CreateOrMatchPairRejects(cmd)
           IN  /\ response' = Exchange("createOrMatchPair", header, req, code, auth.token, << >>)
               /\ IF code # "" THEN UNCHANGED servervars ELSE CreateOrMatchPairHandle(h, cmd)
    /\ UNCHANGED << cache, now, issued, verified, verifiers >>
    /\ UNCHANGED projvars

\* the plan_id query parameter: a text uuid.Validate reads or not
PlanIdTexts ==
    [ form : { "canonical" }, id : PlanIdInputs ] \cup { [ form |-> "junk", id |-> PlanID(0) ] }

\* GET /pairs, HttpServer.getPairs: the pairs of the caller's address with
\* the assets of the plan, in any order, and its terms
HttpGetPairs ==
    \E header \in HttpHeaders, text \in PlanIdTexts :
        LET auth == ExtractTokenFromHttp(cache, header, now)
            got == PlansGet(plans_query, text.id)
            plan == got.plan
            pairs == Find(pairs_query, Nil, plan.Assets, FALSE, << auth.token.Address >>,
                          Ptr(plan.Quantum), Ptr(plan.InvestingPeriod),
                          Ptr(plan.Security), Ptr(plan.Strategy),
                          Ptr(plan.LossProtection))
            code == IF text.form = "junk" THEN "invalid_plan_id"
                    ELSE IF auth.err # "" THEN auth.err
                    ELSE IF ~got.found THEN "plan_not_found"
                    ELSE ""
        IN  /\ response' = Exchange("getPairs", header, text, code, auth.token,
                                    IF code = "" THEN [ i \in 1 .. Len(pairs) |-> pairs[i].Id ] ELSE << >>)
            /\ UNCHANGED << cache, now, issued, verified, verifiers >>
            /\ UNCHANGED << servervars, projvars >>

\* The server runs on a database that holds two plans of the same terms,
\* one for ETH.ETH and one for ETH.ETHIX; a holder of a THORChain key and a
\* holder of an Ethereum key have their tokens, the first one verified.
HttpPlan(asset) == [ StartPlan EXCEPT !.Assets = << ThorRune, asset >> ]

LogTwoPlans ==
    Commit(Commit(LogEmpty, TrackPlanCreated(PlanID(1), HttpPlan(EthEth))),
           TrackPlanCreated(PlanID(2), HttpPlan(EthEthix)))

HttpToken(id) ==
    IF id = 1 THEN newToken(ChainThorchain, [ len |-> 33, prefix |-> "02", key |-> "key1" ], 1, 1, 0).token
    ELSE newToken(ChainEthereum, [ len |-> 65, prefix |-> "04", key |-> "key2" ], 2, 2, 0).token

InitHttp ==
    \E vs \in { { 1 }, { 1, 2 } } :
        /\ events = LogTwoPlans
        /\ started = Len(LogTwoPlans)
        /\ uuids = [ plan |-> 2, pair |-> 0 ]
        /\ handlers = [ h \in Procs |-> IdleSlot ]
        /\ projections = [ name \in { "plans_query", "pairs_query" } |-> Len(LogTwoPlans) ]
        /\ plans_query = ProjectPlans(<< >>, LogTwoPlans)
        /\ pairs_query = ProjectPairs(<< >>, LogTwoPlans)
        /\ runners = [ name \in ProjectionNames |-> IdleRunner ]
        /\ applied = [ name \in ProjectionNames |-> << >> ]
        /\ failsafe = FALSE
        /\ faults = << >>
        /\ cache = [ id \in { 1, 2 } |->
                       [ bytes |-> Bytes([ HttpToken(id) EXCEPT !.Verified = id \in vs ]), at |-> 0 ] ]
        /\ now = 0
        /\ issued = [ id \in { 1, 2 } |-> HttpToken(id) ]
        /\ verified = vs
        /\ verifiers = [ v \in Verifiers |-> IdleVerifier ]
        /\ response = NoResponse

NextHttp ==
    \/ \E h \in Procs : HttpCreateOrMatchPair(h)
    \/ \E h \in Procs : CreateOrMatchPairGet(h) /\ UNCHANGED << projvars, authvars >>
    \/ \E h \in Procs : Save(h) /\ UNCHANGED << projvars, authvars >>
    \/ PlansCallback /\ UNCHANGED << projvars, authvars >>
    \/ PairsCallback /\ UNCHANGED << projvars, authvars >>
    \/ HttpGetPairs

SpecHttp == InitHttp /\ [][NextHttp]_vars
\* ------------------------------------------------------------------ properties of the http server
\* the token Init issued for the bearer id of the exchange, when a Verify
\* has returned for it and it has not expired
Authenticated(x) ==
    /\ WellFormed(x.header)
    /\ BearerOf(x.header) \in DOMAIN issued
    /\ BearerOf(x.header) \in verified
    /\ Unexpired(BearerOf(x.header))
Caller(x) == issued[BearerOf(x.header)]

\* POST /pairs hands its command to the handler in this step
Handed(h) == handlers[h].pc = "idle" /\ handlers'[h].pc # "idle"

\* two bodies that differ only in participant_address give the same command
BodyAddressIgnored ==
    \A b1, b2 \in CreateOrMatchPairBodies :
        b1.plan_id = b2.plan_id /\ b1.participant_asset = b2.participant_asset =>
            \A id \in { 1, 2 } :
                createOrMatchPairCommand(Bind(b1), HttpToken(id)) = createOrMatchPairCommand(Bind(b2), HttpToken(id))

Taxonomy ==
    { "invalid_request", "invalid_plan_id", "invalid_address", "invalid_asset_for_plan",
      "invalid_pair_status", "invalid_wallet_addresses", "invalid_assurances",
      "invalid_public_key", "pair_not_found", "plan_not_found", "already_set_assurances",
      "already_has_deposit", "already_has_lp", "auth_failed", "auth_expired",
      "auth_not_verified", "auth_verification_failed", "forbidden" }
OtherCodes == { "invalid_asset_for_pair", "internal_error", "conflict" }

HasSuffix(text, suffix) ==
    Len(suffix) <= Len(text) /\ SubSeq(text, Len(text) - Len(suffix) + 1, Len(text)) = suffix

\* the status the taxonomy gives a code
StatusOf(code) ==
    IF HasSuffix(code, "_not_found") THEN 404
    ELSE IF HasPrefix(code, "invalid_") \/ HasPrefix(code, "already_") THEN 400
    ELSE IF HasPrefix(code, "auth_") THEN 401
    ELSE IF code = "forbidden" THEN 403
    ELSE 500

\* C22: the status of an error is 404 for the _not_found codes, 400 for the
\* invalid_ and already_ codes, 401 for the auth_ codes, 403 for forbidden
\* and 500 for any other code, for every code of the taxonomy and in every
\* answer a route gives
StatusByCode ==
    /\ \A code \in Taxonomy \cup OtherCodes : convertCodeToHttpStatus(code) = StatusOf(code)
    /\ response # NoResponse /\ response.err # "" =>
           /\ response.status = StatusOf(response.err)
           /\ response.status \in { 400, 401, 403, 404 }

\* a request for the pairs of an unknown plan by a verified caller is
\* answered 404
UnknownPlanAnswered ==
    /\ response # NoResponse
    /\ response.route = "getPairs"
    /\ response.err = "plan_not_found"
    /\ response.status = 404
    /\ Authenticated(response)

\* two assets supplied to Find
SuppliedAssets == { << a, b >> : a, b \in HttpAssets }

\* the row holds every one of the assets
HoldsAll(r, assets) ==
    \A i \in 1 .. Len(assets) : \E j \in 1 .. Len(r.Assets) : r.Assets[j] = assets[i]

\* C23: Find with two assets returns exactly the pairs whose assets are the
\* two in the order given when the order counts, and exactly the pairs that
\* hold both when it does not
FindByAssets ==
    \A assets \in SuppliedAssets, ordered \in BOOLEAN :
        Find(pairs_query, Nil, assets, ordered, << >>, Nil, Nil, Nil, Nil, Nil)
            = SelectSeq(pairs_query, LAMBDA r : IF ordered THEN r.Assets = assets
                                                ELSE HoldsAll(r, assets))

\* ------------------------------------------------------------------ properties of the deposits
\* every asset of the pair has an entry in the map once asset has one
BothAfter(p, entries, asset) ==
    \A i \in 1 .. Len(p.Assets) : p.Assets[i] = asset \/ p.Assets[i] \in DOMAIN entries

\* the statuses from pre_sign_withdrawal on
FromPreSignWithdrawal == { PairStatusPreSignWithdrawal, PairStatusLP, PairStatusWithdrawn }

\* C31: on a pair in deposit, AddDeposit for an asset of the pair whose
\* deposit is recorded returns already_has_deposit; otherwise it tracks
\* AssetDeposited and, in the same batch, PairStatusChanged(
\* pre_sign_withdrawal) exactly when both assets have a deposit afterwards;
\* a stored pair in pre_sign_withdrawal or later has the deposits of both
\* of its assets
DepositsRecorded ==
    \A id \in PairIdInputs :
        LET got == GetPair(events, id)
        IN  /\ got.found /\ got.p.Status \in FromPreSignWithdrawal =>
                   \A i \in 1 .. Len(got.p.Assets) : got.p.Assets[i] \in DOMAIN got.p.Deposits
            /\ got.found /\ got.p.Status = PairStatusDeposit =>
                   \A cmd \in DepositCommands(id) :
                       HasAsset(got.p, cmd.Asset) =>
                           LET r == AddDepositHandle(got, cmd)
                               both == BothAfter(got.p, got.p.Deposits, cmd.Asset)
                           IN  IF cmd.Asset \in DOMAIN got.p.Deposits
                               THEN r.err = "already_has_deposit"
                               ELSE /\ r.err = ""
                                    /\ Len(r.p.Events) = 1 + (IF both THEN 1 ELSE 0)
                                    /\ r.p.Events[1].Reason = "AssetDeposited"
                                    /\ r.p.Events[1].Version = got.p.Version + 1
                                    /\ r.p.Events[1].Data = [ Asset |-> cmd.Asset, TxHash |-> cmd.TxHash ]
                                    /\ both =>
                                           /\ r.p.Events[2].Reason = "PairStatusChanged"
                                           /\ r.p.Events[2].Data = [ Status |-> PairStatusPreSignWithdrawal ]

\* one deposit of a pair is stored: a second deposit of that asset is
\* refused, the deposit of the other asset moves the pair on
SecondDepositCloses ==
    \E id \in PairIdInputs :
        LET got == GetPair(events, id)
            cmd(asset) == [ PairId |-> id, Asset |-> asset, TxHash |-> "tx1" ]
        IN  /\ got.found
            /\ got.p.Status = PairStatusDeposit
            /\ got.p.Assets = << ThorRune, BtcBtc >>
            /\ DOMAIN got.p.Deposits = { ThorRune }
            /\ AddDepositHandle(got, cmd(ThorRune)).err = "already_has_deposit"
            /\ Len(AddDepositHandle(got, cmd(BtcBtc)).p.Events) = 2

\* ------------------------------------------------------------------ properties of the withdrawal
\* C32: on a pair in pre_sign_withdrawal SignWithdrawal tracks
\* WithdrawTxSigned and then PairStatusChanged(lp); once a WithdrawTxSigned
\* is stored for a pair every SignWithdrawal on it returns
\* invalid_pair_status, and the stream of a pair never holds a second
\* WithdrawTxSigned, whatever the interleaving of two SignWithdrawal handlers
WithdrawTxSignedOnce ==
    \A id \in PairIdInputs :
        LET got == GetPair(events, id)
            signed == Count(PairStream(id), "WithdrawTxSigned")
        IN  /\ signed <= 1
            /\ signed = 1 => got.p.WithdrawTx = Ptr(SignedTx(4))
            /\ \A cmd \in SignCommands(id) :
                   LET r == SignWithdrawalHandle(got, cmd)
                   IN  /\ signed > 0 => r.err = "invalid_pair_status"
                       /\ got.found /\ got.p.Status = PairStatusPreSignWithdrawal =>
                              /\ r.err = ""
                              /\ Len(r.p.Events) = 2
                              /\ r.p.Events[1].Reason = "WithdrawTxSigned"
                              /\ r.p.Events[1].Version = got.p.Version + 1
                              /\ r.p.Events[1].Data = [ Tx |-> cmd.Tx ]
                              /\ r.p.Events[2].Reason = "PairStatusChanged"
                              /\ r.p.Events[2].Version = got.p.Version + 2
                              /\ r.p.Events[2].Data = [ Status |-> PairStatusLP ]

\* two SignWithdrawal handlers loaded the pair in pre_sign_withdrawal: the
\* batch of one is stored, the pair is in lp, and the other still holds its
\* own WithdrawTxSigned for the same version
ConcurrentSignLost ==
    \E h \in Procs :
        /\ Saving(h, "SignWithdrawal", "WithdrawTxSigned")
        /\ LET stream == PairStream(handlers[h].p.ID)
               v == handlers[h].p.Events[1].Version
           IN  Len(stream) > v /\ stream[v].Reason = "WithdrawTxSigned"
        /\ StoredPair(handlers[h].p.ID).Status = PairStatusLP

\* ------------------------------------------------------------------ properties of LPPair
\* what LPPair makes of every command on a pair in lp
LPPairResults ==
    \A id \in PairIdInputs :
        LET got == GetPair(events, id)
        IN  got.found /\ got.p.Status = PairStatusLP =>
                \A cmd \in DepositCommands(id) :
                    HasAsset(got.p, cmd.Asset) =>
                        LET r == LPPairHandle(got, cmd)
                        IN  IF cmd.Asset \in DOMAIN got.p.LP
                            THEN r.err = "already_has_lp"
                            ELSE /\ r.err = ""
                                 /\ Len(r.p.Events) = 1
                                 /\ r.p.Events[1].Reason = "LPDone"
                                 /\ r.p.Events[1].Version = got.p.Version + 1
                                 /\ r.p.Events[1].Data.Asset = cmd.Asset
                                 /\ r.p.Events[1].Data.TxHash = cmd.TxHash
                                 /\ r.p.Status = PairStatusLP

\* slot h saves the batch of an LPPair in this step
SavesLP(h) ==
    /\ Saving(h, "LPPair", "LPDone")
    /\ Returns(h)
    /\ events' # events

\* C33: on a pair in lp, LPPair for an asset whose LP is recorded returns
\* already_has_lp; otherwise it tracks one LPDone and no PairStatusChanged,
\* its save appends that one event, and the stored pair is in lp after it,
\* also when the LP of both assets is recorded by then
LPDoneKeepsStatus ==
    /\ []LPPairResults
    /\ [][ \A h \in Procs :
             SavesLP(h) =>
                 LET id == handlers[h].p.ID
                 IN  /\ Len(events') = Len(events) + 1
                     /\ events'[Len(events')].Reason = "LPDone"
                     /\ events'[Len(events')].AggregateID = id
                     /\ GetPair(events', id).p.Status = PairStatusLP
                     /\ GetPair(events, id).p.Status = PairStatusLP ]_vars

\* the LP of both assets of a pair is stored, the pair is in lp, and a
\* further LPPair of either asset is refused
BothLPStillLP ==
    \E id \in IssuedPairs :
        LET got == GetPair(events, id)
            cmd(asset) == [ PairId |-> id, Asset |-> asset, TxHash |-> "tx1" ]
        IN  /\ got.found
            /\ got.p.Status = PairStatusLP
            /\ DOMAIN got.p.LP = { ThorRune, BtcBtc }
            /\ Count(PairStream(id), "LPDone") = 2
            /\ LPPairHandle(got, cmd(ThorRune)).err = "already_has_lp"
            /\ LPPairHandle(got, cmd(BtcBtc)).err = "already_has_lp"

\* ------------------------------------------------------------------ specification of the terminal states
\* the withdrawal of a pair (spec 4.4: after Withdrawn the status is
\* withdrawn): Withdrawn and PairStatusChanged(withdrawn) on the pair. No
\* handler of app/commands tracks them; the events are those Pair.Register
\* registers and PairsQuery.Callback applies
Withdrawal(p, cmd) ==
    Ok(StatusChanged(TrackChange(p, "Pair", "Withdrawn", [ TxHash |-> cmd.TxHash ]),
                     PairStatusWithdrawn))

\* what the handler of the command makes of the loaded pair
StartHandle(p, cmd) ==
    CASE cmd.op = "AddDeposit" -> AddDepositCheck(p, cmd)
      [] cmd.op = "SignWithdrawal" -> SignWithdrawalCheck(p, cmd)
      [] cmd.op = "LPPair" -> LPPairCheck(p, cmd)
      [] cmd.op = "Withdrawal" -> Withdrawal(p, cmd)

RECURSIVE RunCommands(_, _)
\* the log after the commands on pair 1 were handled and saved, one after
\* the other
RunCommands(log, cmds) ==
    IF cmds = << >> THEN log
    ELSE RunCommands(Commit(log, StartHandle(Stored(log), cmds[1]).p), Tail(cmds))

StartDeposit(op, asset) == [ op |-> op, PairId |-> PairID(1), Asset |-> asset, TxHash |-> "tx1" ]

\* the log of a pair taken through its whole life: both deposits, the
\* signed withdrawal, the LP of both assets, and the withdrawal
LogWithdrawn ==
    RunCommands(LogDeposit,
        << StartDeposit("AddDeposit", ThorRune), StartDeposit("AddDeposit", BtcBtc),
           [ op |-> "SignWithdrawal", PairId |-> PairID(1), Tx |-> SignedTx(4) ],
           StartDeposit("LPPair", ThorRune), StartDeposit("LPPair", BtcBtc),
           [ op |-> "Withdrawal", PairId |-> PairID(1), TxHash |-> "tx2" ] >>)

\* The server starts on a log that holds a withdrawn pair, its projections
\* caught up or, after reset-projections, replaying from cursor 0 with the
\* read table dropped: plans_query has replayed the log, pairs_query is at
\* its start. The server takes CreateOrMatchPair commands meanwhile.
InitTerminal ==
    \E caughtUp \in BOOLEAN, log \in { LogWithdrawn } :
            /\ events = log
            /\ started = Len(log)
            /\ uuids = [ plan |-> 1, pair |-> 1 ]
            /\ handlers = [ h \in Procs |-> IdleSlot ]
            /\ projections = [ name \in ProjectionNames |->
                                 IF caughtUp \/ name = "plans_query" THEN Len(log) ELSE 0 ]
            /\ plans_query = dropTableIfFirstRun(projections, "plans_query", ProjectPlans(<< >>, log))
            /\ pairs_query = dropTableIfFirstRun(projections, "pairs_query", ProjectPairs(<< >>, log))
            /\ runners = [ name \in ProjectionNames |-> IdleRunner ]
            /\ applied = [ name \in ProjectionNames |-> << >> ]
            /\ failsafe = FALSE
            /\ faults = << >>
            /\ AuthStart

NextTerminal ==
    \/ \E h \in Procs : CreateOrMatchPairFind(h) /\ UNCHANGED << projvars, authvars >>
    \/ \E h \in Procs : CreateOrMatchPairGet(h) /\ UNCHANGED << projvars, authvars >>
    \/ \E h \in Procs : Save(h) /\ UNCHANGED << projvars, authvars >>
    \/ PlansCallback /\ UNCHANGED << projvars, authvars >>
    \/ PairsCallback /\ UNCHANGED << projvars, authvars >>

SpecTerminal == InitTerminal /\ [][NextTerminal]_vars

TerminalStatuses == { PairStatusWithdrawn, PairStatusInvalid }

\* the five handlers that ask for a status refuse every command on a pair
\* stored in a terminal status
TerminalRefused ==
    \A id \in IssuedPairs :
        LET got == GetPair(events, id)
        IN  got.p.Status \in TerminalStatuses =>
                \A status \in AskedStatuses : Results(got, id, status) = { "invalid_pair_status" }

\* C34: withdrawn and invalid are terminal: no step of a command appends
\* an event to a pair whose stored status is withdrawn or invalid, the
\* CreateOrMatchPair that read a stale read model included
TerminalIsFinal ==
    /\ []TerminalRefused
    /\ [][ \A id \in IssuedPairs :
             StoredPair(id).Status \in TerminalStatuses =>
                 StreamOf(events', id, "Pair") = PairStream(id) ]_vars

\* ------------------------------------------------------------------ properties of the projection ticks
\* the callback of name returns in this step
CallbackReturns(n) ==
    /\ runners[n].pc \in { "next", "increment" }
    /\ HasNext(runners[n])
    /\ runners'[n] # runners[n]
    /\ runners'[n].pc # "increment"

\* the callback of name returns an error in this step: the event handed to
\* it has not taken effect and the cursor stands where it stood
CallbackFails(n) ==
    /\ CallbackReturns(n)
    /\ Cursor(n) >= 0
    /\ projections' = projections
    /\ applied'[n] = applied[n]

\* C35: a default projection goes on ticking after an apply error: when
\* its callback returns an error the goroutine of the projection is still
\* running, so a later tick fetches the failed event again and every
\* stored event is applied in the end
ApplyErrorIsRetried ==
    [][ \A n \in ProjectionNames :
          ~failsafe /\ CallbackFails(n) => runners'[n].pc # "stopped" ]_vars

\* ------------------------------------------------------------------ properties of the start-up
\* the read table of the projection
ReadTable(n) == IF n = "plans_query" THEN plans_query ELSE pairs_query

\* NewApplication runs in this step
Restarts == faults' = Append(faults, "restart")

\* C36: at start-up a projection drops its read table exactly when its
\* cursor is 0: a restart keeps the cursor, with a cursor above 0 it keeps
\* every row of the read table, and with the cursor at 0 (a first run, or
\* the first start after reset-projections) the read table is empty when
\* the projection starts to apply events
DropsTableAtCursorZero ==
    [][ Restarts =>
          \A n \in ProjectionNames :
              LET last == IF n \in DOMAIN projections THEN projections[n] ELSE 0
              IN  /\ n \in DOMAIN projections'
                  /\ projections'[n] = last
                  /\ last > 0 => ReadTable(n)' = ReadTable(n)
                  /\ last = 0 => ReadTable(n)' = << >>
                  /\ runners'[n] = IdleRunner ]_vars

\* the server has started again after a failed statement: plans_query,
\* whose cursor is at 0, is empty, and pairs_query, whose cursor has moved,
\* has kept its row
KeptAndDropped ==
    /\ faults = << "statement", "restart" >>
    /\ Cursor("plans_query") = 0 /\ plans_query = << >>
    /\ Cursor("pairs_query") > 0 /\ Len(pairs_query) = 1
    /\ \A n \in ProjectionNames : runners[n] = IdleRunner

\* ------------------------------------------------------------------ properties of the pairs read model
\* pairs_query is what the projection makes of the log up to its cursor
RowsOfPrefix ==
    pairs_query = ProjectPairs(<< >>, SubSeq(events, 1, projections["pairs_query"]))

\* a row in status waiting holds the one address of the pair's creator
WaitingRowsHoldOneAddress ==
    \A i \in 1 .. Len(pairs_query) :
        pairs_query[i].Status = PairStatusWaiting =>
            Len(pairs_query[i].ParticipantAddresses) = 1

\* slot h takes pairs[0] of the read model as its candidate in this step
SelectsCandidate(h) == handlers[h].pc = "idle" /\ handlers'[h].pc = "load"

\* the candidate a CreateOrMatchPair takes has no PairMatched in the log
CandidateUnmatched ==
    [][ \A h \in Procs :
          SelectsCandidate(h) =>
              Count(PairStream(handlers'[h].id), "PairMatched") = 0 ]_vars

\* C37: every row of pairs_query is the projection of the log up to the
\* cursor of the projection, a row in status waiting never holds a second
\* participant address, and CreateOrMatchPair never takes as its waiting
\* candidate a pair whose PairMatched is stored
WaitingCandidateUnmatched ==
    /\ [](RowsOfPrefix /\ WaitingRowsHoldOneAddress)
    /\ CandidateUnmatched

\* ------------------------------------------------------------------ properties of the cursor
\* the seq of the last event whose callback took effect for name, 0 if none
LastHandled(n) == IF applied[n] = << >> THEN 0 ELSE applied[n][Len(applied[n])]

\* name has a cursor row and no callback of name is under way
BetweenCallbacks(n) == n \in DOMAIN projections /\ runners[n].pc # "increment"

\* the cursor of name is the seq of the event its callback handled last and
\* the next Fetch starts at the event after it
CursorIsLastHandled(n) ==
    LET f == Fetch(projections, n, events)
    IN  /\ projections[n] = LastHandled(n)
        /\ f.events # << >> => f.events[1].GlobalVersion = LastHandled(n) + 1

\* C38: between the callbacks the cursor of a projection is the seq of the
\* last event its callback handled (0 if none) and the next Fetch starts at
\* the first event not handled, after failed callbacks and under the
\* fail-safe wrapper as well
CursorAtLastHandled ==
    \A n \in ProjectionNames : BetweenCallbacks(n) => CursorIsLastHandled(n)

\* ------------------------------------------------------------------ specification of the counterparts
\* The server starts on a database in which one plan is stored and no pair;
\* the holders of the two assets of the plan send their CreateOrMatchPair.
MaxCounterparts == 2

\* a CreateOrMatchPair of a holder of an asset of the plan reaches its handler
CounterpartArrives(h) ==
    \E asset \in { ThorRune, BtcBtc }, address \in AddressInputs :
        /\ FreeSlot(h)
        /\ Accepting
        /\ CreateOrMatchPairWithin(h, [ PlanId |-> PlanID(1), ParticipantAsset |-> asset,
                                        ParticipantAddress |-> address ],
                                   MaxCounterparts)

InitCounterparts ==
    \E log \in { LogWaiting(0, ThorRune) } :
        /\ events = log
        /\ started = Len(log)
        /\ uuids = [ plan |-> 1, pair |-> 0 ]
        /\ handlers = [ h \in Procs |-> IdleSlot ]
        /\ projections = [ name \in { "plans_query", "pairs_query" } |-> Len(log) ]
        /\ plans_query = ProjectPlans(<< >>, log)
        /\ pairs_query = << >>
        /\ runners = [ name \in ProjectionNames |-> IdleRunner ]
        /\ applied = [ name \in ProjectionNames |-> << >> ]
        /\ failsafe = FALSE
        /\ faults = << >>
        /\ AuthStart

NextCounterparts ==
    \/ \E h \in Procs : CounterpartArrives(h) /\ UNCHANGED << projvars, authvars >>
    \/ \E h \in Procs : CreateOrMatchPairGet(h) /\ UNCHANGED << projvars, authvars >>
    \/ \E h \in Procs : Save(h) /\ UNCHANGED << projvars, authvars >>
    \/ PlansCallback /\ UNCHANGED << projvars, authvars >>
    \/ PairsCallback /\ UNCHANGED << projvars, authvars >>

SpecCounterparts == InitCounterparts /\ [][NextCounterparts]_vars

\* the stored pairs p and q have the terms of one plan and the same two
\* assets in opposite order
Complementary(p, q) ==
    /\ p.Assets = << q.Assets[2], q.Assets[1] >>
    /\ p.ShareValue = q.ShareValue
    /\ p.InvestingPeriod = q.InvestingPeriod
    /\ p.WalletSecurity = q.WalletSecurity
    /\ p.ProfitSharingStrategy = q.ProfitSharingStrategy
    /\ p.LossProtection = q.LossProtection

\* C39: the event store never holds two pairs in status waiting with equal
\* plan terms and the assets [X, Y] and [Y, X]: the counterpart joins the
\* pair that waits, whatever the interleaving of commands and projections
NoComplementaryWaiting ==
    \A i, j \in IssuedPairs :
        LET p == StoredPair(i)
            q == StoredPair(j)
        IN  i # j /\ p.Status = PairStatusWaiting /\ q.Status = PairStatusWaiting
            => ~Complementary(p, q)

\* ------------------------------------------------------------------ properties of the stored token
\* the token the cache holds for id, decoded
StoredToken(c, id) == Get(c, id).token

\* the cache entry of id is written in this step
Sets(id) == id \in DOMAIN cache' /\ (id \in DOMAIN cache => cache'[id] # cache[id])

\* a Verify whose signature passed VerifyChallenge does its cache.Set of id
VerifySets(id) ==
    \E v \in Verifiers :
        /\ verifiers[v].pc = "set"
        /\ verifiers'[v].pc = "idle"
        /\ verifiers[v].token.Id = id
        /\ verifiers[v].valid

\* what is stored of a token is what Init returned, the flag apart
IdentityFrozen ==
    \A id \in DOMAIN cache :
        /\ id \in DOMAIN issued
        /\ ~issued[id].Verified
        /\ [ StoredToken(cache, id) EXCEPT !.Verified = FALSE ] = issued[id]

\* C40: the flag of a token only goes up and the rest of it is frozen: Init
\* stores the token unverified, the stored token is only written again by
\* the Set of a Verify whose signature passed (a failed Verify writes
\* nothing), that Set changes Verified to true and no other field, and no
\* extraction returns the token after the ExpiresAt Init gave it, however
\* often it is verified
VerifiedMonotoneIdentityFrozen ==
    /\ []IdentityFrozen
    /\ [][ /\ \A id \in DOMAIN cache' :
                /\ id \notin DOMAIN issued => ~StoredToken(cache', id).Verified
                /\ id \in DOMAIN issued /\ Sets(id) =>
                      /\ VerifySets(id)
                      /\ StoredToken(cache', id) = [ issued[id] EXCEPT !.Verified = TRUE ]
                /\ id \in DOMAIN cache /\ StoredToken(cache, id).Verified =>
                      StoredToken(cache', id).Verified
            /\ Extracts /\ response'.err = "" =>
                      now <= issued[response'.token.Id].ExpiresAt ]_vars

\* a Verify wrote the entry of a token again after Init, the token is past
\* its ExpiresAt and still in the cache, verified, and the extraction for
\* it has returned auth_expired
VerifiedPastExpiry ==
    \E id \in DOMAIN cache :
        /\ cache[id].at > issued[id].IssuedAt
        /\ StoredToken(cache, id).Verified
        /\ now > issued[id].ExpiresAt
        /\ response.header = << "Bearer", [ form |-> "canonical", n |-> id ] >>
        /\ response.err = "auth_expired"
====
